---- MODULE Spec2Model ----
(***************************************************************************)
(* UnstorageCache (drizzle-uncache): a query-result cache layered on a    *)
(* flat key-value storage.  Strings are sequences of symbols: a user      *)
(* string is a sequence of one-character strings, and each literal key    *)
(* prefix of the source ("__CT__", "__NAI__", ...) is one symbol.  An     *)
(* optional value (undefined / null in the source) is a sequence of       *)
(* length 0 or 1.                                                          *)
(***************************************************************************)
EXTENDS Integers, Sequences, FiniteSets, TLC

VARIABLES
  storage,        \* the backend: key -> [value, deadline]
  now,            \* Date.now()
  defaultConfig,  \* options.config
  honorsTtl,      \* whether the driver acts on the ttl option
  last,           \* the last cache operation: its arguments and its result
  before,         \* the storage that operation started from
  hiddenTags,     \* tags invalidated by onMutate and not put since
  putLog,         \* value key -> the last put that persisted an entry under it,
                  \* forgotten when a put drops the entry, a put of the same tag
                  \* takes over the tag, or onMutate names its tag or one of
                  \* its tables
  hasSetItems,    \* whether the driver offers the batch method setItems
  twin,           \* a second backend, one that honors the ttl option, for the
                  \* operations that are run on both
  inflight,       \* the operations started and not settled yet, each with the
                  \* backend calls it has issued and is waiting for
  ops,            \* operations performed
  ticks           \* clock advances performed

vars == <<storage, now, defaultConfig, honorsTtl, hasSetItems, twin, inflight, last, before, hiddenTags, putLog,
          ops, ticks>>

----------------------------------------------------------------------------
(* Bounds of the model *)

\* number of cache operations (get / put / onMutate) in one behaviour
MaxOps == 3

\* number of clock advances in one behaviour
MaxTicks == 1
MaxTwinOps == 4
MaxTwinTicks == 2

\* the clock reading at construction (ms)
StartTimes == {1000}

----------------------------------------------------------------------------
(* Program constants *)

DEFAULT_TTL_MS == 1000
MS_PER_SECOND == 1000
INDEX_KEY_PARTS == 5
VALUE_AUTO_PREFIX == "__CT__"
VALUE_NON_AUTO_PREFIX == "__NAI__"
INDEX_PREFIX == "__CTS__"
TAG_MAP_PREFIX == "__tagsMap__"
NAI == <<"N", "A", "I">>

----------------------------------------------------------------------------
(* Optional values *)

Undefined == <<>>
Some(x) == <<x>>
IsDefined(o) == Len(o) > 0
Val(o) == o[1]

----------------------------------------------------------------------------
(* Strings *)

\* UTF-16 code units of the characters the model uses (Array.prototype.sort
\* without a comparator orders strings by code unit)
CodeUnit ==
  ("%" :> 37) @@ ("," :> 44) @@ ("2" :> 50) @@ ("3" :> 51) @@ ("5" :> 53) @@
  (":" :> 58) @@ ("A" :> 65) @@ ("C" :> 67) @@ ("g" :> 103) @@ ("k" :> 107) @@
  ("p" :> 112) @@ ("u" :> 117)

RECURSIVE StrLess(_, _)
StrLess(a, b) ==
  IF Len(b) = 0 THEN FALSE
  ELSE IF Len(a) = 0 THEN TRUE
  ELSE IF CodeUnit[Head(a)] < CodeUnit[Head(b)] THEN TRUE
  ELSE IF CodeUnit[Head(a)] > CodeUnit[Head(b)] THEN FALSE
  ELSE StrLess(Tail(a), Tail(b))

RECURSIVE Concat(_)
Concat(parts) ==
  IF Len(parts) = 0 THEN <<>> ELSE Head(parts) \o Concat(Tail(parts))

RECURSIVE Join(_, _)
Join(parts, sep) ==
  IF Len(parts) = 0 THEN <<>>
  ELSE IF Len(parts) = 1 THEN Head(parts)
  ELSE Head(parts) \o <<sep>> \o Join(Tail(parts), sep)

RECURSIVE SplitFrom(_, _, _, _, _)
SplitFrom(s, sep, i, cur, acc) ==
  IF i > Len(s) THEN Append(acc, cur)
  ELSE IF s[i] = sep THEN SplitFrom(s, sep, i + 1, <<>>, Append(acc, cur))
  ELSE SplitFrom(s, sep, i + 1, Append(cur, s[i]), acc)

Split(s, sep) == SplitFrom(s, sep, 1, <<>>, <<>>)

StartsWith(s, prefix) ==
  /\ Len(prefix) <= Len(s)
  /\ SubSeq(s, 1, Len(prefix)) = prefix

RECURSIVE Insert(_, _)
Insert(x, sorted) ==
  IF Len(sorted) = 0 THEN <<x>>
  ELSE IF StrLess(x, Head(sorted)) THEN <<x>> \o sorted
  ELSE <<Head(sorted)>> \o Insert(x, Tail(sorted))

RECURSIVE Sort(_)
Sort(list) ==
  IF Len(list) = 0 THEN <<>> ELSE Insert(Head(list), Sort(Tail(list)))

Range(list) == {list[i] : i \in 1..Len(list)}

RECURSIVE Dedupe(_)
Dedupe(list) ==
  IF Len(list) = 0 THEN <<>>
  ELSE LET init == SubSeq(list, 1, Len(list) - 1)
           x == list[Len(list)]
       IN IF x \in Range(init) THEN Dedupe(init) ELSE Append(Dedupe(init), x)

----------------------------------------------------------------------------
(* Key codec *)

\* encodeURIComponent on one character
EncodeChar(c) ==
  CASE c = ":" -> <<"%", "3", "A">>
    [] c = "," -> <<"%", "2", "C">>
    [] c = "%" -> <<"%", "2", "5">>
    [] OTHER -> <<c>>

\* a variant of encode that escapes nothing
encodeNothing(value) == value

encode(value) == Concat([i \in 1..Len(value) |-> EncodeChar(value[i])])

\* decodeURIComponent
RECURSIVE decodeURIComponent(_)
decodeURIComponent(s) ==
  IF Len(s) = 0 THEN <<>>
  ELSE IF Head(s) = "%" /\ Len(s) >= 3
    THEN LET hex == SubSeq(s, 2, 3)
             c == CASE hex = <<"3", "A">> -> ":"
                    [] hex = <<"2", "C">> -> ","
                    [] hex = <<"2", "5">> -> "%"
                    [] OTHER -> "URIError"
         IN <<c>> \o decodeURIComponent(SubSeq(s, 4, Len(s)))
    ELSE <<Head(s)>> \o decodeURIComponent(Tail(s))

\* a variant of makeTablesKey that keeps the caller's order
makeTablesKeyUnsorted(tables) ==
  IF Len(tables) = 0 THEN <<>>
  ELSE Join([i \in 1..Len(tables) |-> encode(tables[i])], ",")

makeTablesKey(tables) ==
  IF Len(tables) = 0 THEN <<>>
  ELSE Join(Sort([i \in 1..Len(tables) |-> encode(tables[i])]), ",")

\* tablesKey is an optional string
decodeTablesKey(tablesKey) ==
  IF ~IsDefined(tablesKey) \/ Len(Val(tablesKey)) = 0 THEN <<>>
  ELSE LET parts == SelectSeq(Split(Val(tablesKey), ","), LAMBDA p : Len(p) > 0)
       IN [i \in 1..Len(parts) |-> decodeURIComponent(parts[i])]

parseIndexKey(key) ==
  LET parts == Split(key, ":")
  IN IF Len(parts) # INDEX_KEY_PARTS THEN Undefined
     ELSE IF parts[1] # <<INDEX_PREFIX>> THEN Undefined
     ELSE IF Len(parts[2]) = 0 \/ Len(parts[3]) = 0 \/ Len(parts[5]) = 0 THEN Undefined
     ELSE IF parts[4] # <<"q">> /\ parts[4] # <<"t">> THEN Undefined
     ELSE Some([tableEnc |-> parts[2], tablesKey |-> parts[3],
                isTag |-> (parts[4] = <<"t">>), keyEnc |-> parts[5]])

\* a variant of valueKey with one prefix for both kinds of slot
valueKeyOnePrefix(autoInvalidate, isTag, keyEnc, tablesKey) ==
  <<VALUE_AUTO_PREFIX, ":">>
    \o (IF autoInvalidate /\ IsDefined(tablesKey) THEN Val(tablesKey) ELSE <<>>)
    \o <<":", IF isTag THEN "t" ELSE "q", ":">> \o keyEnc

valueKey(autoInvalidate, isTag, keyEnc, tablesKey) ==
  LET kind == IF isTag THEN "t" ELSE "q"
  IN IF ~autoInvalidate
       THEN <<VALUE_NON_AUTO_PREFIX, ":", kind, ":">> \o keyEnc
       ELSE <<VALUE_AUTO_PREFIX, ":">>
              \o (IF IsDefined(tablesKey) THEN Val(tablesKey) ELSE <<>>)
              \o <<":", kind, ":">> \o keyEnc

indexKey(table, tablesKey, isTag, keyEnc) ==
  <<INDEX_PREFIX, ":">> \o encode(table) \o <<":">> \o tablesKey
    \o <<":", IF isTag THEN "t" ELSE "q", ":">> \o keyEnc

tagMapKey(tagEnc) == <<TAG_MAP_PREFIX, ":">> \o tagEnc

----------------------------------------------------------------------------
(* Storage backend: a map from key to the stored value and, when the      *)
(* backend honors the TTL option, the instant at which it drops the key.  *)

getItem(st, key) == IF key \in DOMAIN st THEN Some(st[key].value) ELSE Undefined

removeItem(st, key) == [k \in DOMAIN st \ {key} |-> st[k]]

removeItems(st, keys) == [k \in DOMAIN st \ keys |-> st[k]]

getKeys(st, prefix) == {k \in DOMAIN st : StartsWith(k, prefix)}

\* ttlOptions is the optional {ttl: seconds} handed to the backend
setItem(st, key, value, ttlOptions, t, honors) ==
  LET deadline == IF honors /\ IsDefined(ttlOptions)
                    THEN Some(t + Val(ttlOptions) * MS_PER_SECOND)
                    ELSE Undefined
  IN (key :> [value |-> value, deadline |-> deadline]) @@ st

\* what a TTL-honoring backend still holds at time t
evict(st, t) ==
  [k \in {x \in DOMAIN st : ~(IsDefined(st[x].deadline) /\ Val(st[x].deadline) <= t)} |-> st[k]]

\* JavaScript falsiness of an optional string / optional number
FalsyString(o) == ~IsDefined(o) \/ Len(Val(o)) = 0
FalsyNumber(o) == ~IsDefined(o) \/ Val(o) = 0

----------------------------------------------------------------------------
(* Expiry engine *)

\* a variant of pickConfigWithTtl that accepts a config without TTL fields
pickConfigAlways(config) == config

pickConfigWithTtl(config) ==
  IF ~IsDefined(config) THEN Undefined
  ELSE IF \/ IsDefined(Val(config).ex)
          \/ IsDefined(Val(config).px)
          \/ IsDefined(Val(config).exat)
          \/ IsDefined(Val(config).pxat)
    THEN config
    ELSE Undefined

\* a variant of isExpired that lets the entry live through its expiry instant
isExpiredAfter(entry, t) == IsDefined(entry.expiresAt) /\ Val(entry.expiresAt) < t

isExpired(entry, t) == IsDefined(entry.expiresAt) /\ Val(entry.expiresAt) <= t

\* a variant of toExpiresAt that resolves no expiry when neither config has
\* a TTL field
toExpiresAtNoDefault(t, config, existingExpiresAt, dflt) ==
  IF /\ IsDefined(config)
     /\ Val(config).keepTtl
     /\ ~FalsyNumber(existingExpiresAt)
     /\ Val(existingExpiresAt) > t
    THEN existingExpiresAt
    ELSE LET source == IF IsDefined(pickConfigWithTtl(config))
                         THEN pickConfigWithTtl(config)
                         ELSE pickConfigWithTtl(dflt)
         IN IF ~IsDefined(source) THEN Undefined
            ELSE IF IsDefined(Val(source).px) THEN Some(t + Val(Val(source).px))
            ELSE IF IsDefined(Val(source).ex) THEN Some(t + Val(Val(source).ex) * MS_PER_SECOND)
            ELSE IF IsDefined(Val(source).pxat) THEN Val(source).pxat
            ELSE IF IsDefined(Val(source).exat) THEN Some(Val(Val(source).exat) * MS_PER_SECOND)
            ELSE Undefined

toExpiresAt(t, config, existingExpiresAt, dflt) ==
  IF /\ IsDefined(config)
     /\ Val(config).keepTtl
     /\ ~FalsyNumber(existingExpiresAt)
     /\ Val(existingExpiresAt) > t
    THEN existingExpiresAt
    ELSE LET source == IF IsDefined(pickConfigWithTtl(config))
                         THEN pickConfigWithTtl(config)
                         ELSE pickConfigWithTtl(dflt)
         IN IF ~IsDefined(source) THEN Some(t + DEFAULT_TTL_MS)
            ELSE IF IsDefined(Val(source).px) THEN Some(t + Val(Val(source).px))
            ELSE IF IsDefined(Val(source).ex) THEN Some(t + Val(Val(source).ex) * MS_PER_SECOND)
            ELSE IF IsDefined(Val(source).pxat) THEN Val(source).pxat
            ELSE IF IsDefined(Val(source).exat) THEN Some(Val(Val(source).exat) * MS_PER_SECOND)
            ELSE Some(t + DEFAULT_TTL_MS)

\* a variant of CeilSeconds that rounds down
FloorSeconds(ms) == ms \div MS_PER_SECOND

\* Math.ceil(ms / 1000) for an integer ms
CeilSeconds(ms) ==
  IF ms % MS_PER_SECOND = 0 THEN ms \div MS_PER_SECOND ELSE (ms \div MS_PER_SECOND) + 1

Max(a, b) == IF a >= b THEN a ELSE b

ttlSecondsOf(expiresAt, t) ==
  IF IsDefined(expiresAt) THEN Some(Max(1, CeilSeconds(Val(expiresAt) - t))) ELSE Undefined

ttlOptions(ttlSeconds) == IF FalsyNumber(ttlSeconds) THEN Undefined ELSE ttlSeconds

----------------------------------------------------------------------------
(* Cache operations as functions of the storage *)

RECURSIVE setMany(_, _, _, _, _)
setMany(st, items, ttlSeconds, t, honors) ==
  IF Len(items) = 0 THEN st
  ELSE setMany(setItem(st, Head(items).key, Head(items).value, ttlOptions(ttlSeconds), t, honors),
               Tail(items), ttlSeconds, t, honors)

\* p: [autoInvalidate, isTag, keyEnc, tablesKey, entry, fallbackTables, removeTagMap]
dropEntry(st, p) ==
  LET tables == IF IsDefined(p.entry) /\ IsDefined(Val(p.entry).tables)
                  THEN Val(Val(p.entry).tables)
                  ELSE IF IsDefined(p.fallbackTables) THEN Val(p.fallbackTables)
                  ELSE decodeTablesKey(p.tablesKey)
      resolvedTablesKey == IF p.autoInvalidate
                             THEN (IF IsDefined(p.tablesKey) THEN p.tablesKey
                                   ELSE Some(makeTablesKey(tables)))
                             ELSE Undefined
      st1 == removeItem(st, valueKey(p.autoInvalidate, p.isTag, p.keyEnc, resolvedTablesKey))
      st2 == IF p.isTag /\ p.removeTagMap THEN removeItem(st1, tagMapKey(p.keyEnc)) ELSE st1
  IN IF ~p.autoInvalidate \/ Len(tables) = 0 \/ FalsyString(resolvedTablesKey) THEN st2
     ELSE removeItems(st2, {indexKey(tables[i], Val(resolvedTablesKey), p.isTag, p.keyEnc) :
                              i \in 1..Len(tables)})

\* a variant of getTag that removes a tag-map record whose value key is gone
getTagDroppingStaleMap(st, t, key) ==
  LET keyEnc == encode(key)
      mapValue == getItem(st, tagMapKey(keyEnc))
      autoInvalidate == Val(mapValue) # NAI
      tablesKey == IF autoInvalidate THEN mapValue ELSE Undefined
      entry == getItem(st, valueKey(autoInvalidate, TRUE, keyEnc, tablesKey))
  IN IF FalsyString(mapValue) THEN [result |-> Undefined, st |-> st]
     ELSE IF ~IsDefined(entry)
       THEN [result |-> Undefined, st |-> removeItem(st, tagMapKey(keyEnc))]
     ELSE IF isExpired(Val(entry), t)
       THEN [result |-> Undefined,
             st |-> dropEntry(st, [autoInvalidate |-> autoInvalidate, isTag |-> TRUE,
                                   keyEnc |-> keyEnc, tablesKey |-> tablesKey, entry |-> entry,
                                   fallbackTables |-> Some(decodeTablesKey(tablesKey)),
                                   removeTagMap |-> TRUE])]
     ELSE [result |-> Some(Val(entry).value), st |-> st]

\* the tag path of get: [result, st]
getTag(st, t, key) ==
  LET keyEnc == encode(key)
      mapValue == getItem(st, tagMapKey(keyEnc))
      autoInvalidate == Val(mapValue) # NAI
      tablesKey == IF autoInvalidate THEN mapValue ELSE Undefined
      entry == getItem(st, valueKey(autoInvalidate, TRUE, keyEnc, tablesKey))
  IN IF FalsyString(mapValue) THEN [result |-> Undefined, st |-> st]
     ELSE IF ~IsDefined(entry) THEN [result |-> Undefined, st |-> st]
     ELSE IF isExpired(Val(entry), t)
       THEN [result |-> Undefined,
             st |-> dropEntry(st, [autoInvalidate |-> autoInvalidate, isTag |-> TRUE,
                                   keyEnc |-> keyEnc, tablesKey |-> tablesKey, entry |-> entry,
                                   fallbackTables |-> Some(decodeTablesKey(tablesKey)),
                                   removeTagMap |-> TRUE])]
     ELSE [result |-> Some(Val(entry).value), st |-> st]

\* the query path of get: [result, st]
getQuery(st, t, key, tables, isAutoInvalidate) ==
  LET keyEnc == encode(key)
      autoInvalidate == IF IsDefined(isAutoInvalidate) THEN Val(isAutoInvalidate)
                        ELSE Len(tables) > 0
      tablesKey == IF autoInvalidate THEN Some(makeTablesKey(tables)) ELSE Undefined
      entry == getItem(st, valueKey(autoInvalidate, FALSE, keyEnc, tablesKey))
  IN IF ~IsDefined(entry) THEN [result |-> Undefined, st |-> st]
     ELSE IF isExpired(Val(entry), t)
       THEN [result |-> Undefined,
             st |-> dropEntry(st, [autoInvalidate |-> autoInvalidate, isTag |-> FALSE,
                                   keyEnc |-> keyEnc, tablesKey |-> tablesKey, entry |-> entry,
                                   fallbackTables |-> Some(tables),
                                   removeTagMap |-> FALSE])]
     ELSE [result |-> Some(Val(entry).value), st |-> st]

\* a variant of get whose tag path lets a hint that is off override the tag map
getTagByHint(st, t, key, tables, isTag, isAutoInvalidate) ==
  IF isTag /\ isAutoInvalidate = Some(FALSE) /\ tagMapKey(encode(key)) \in DOMAIN st
    THEN [result |-> getTag((tagMapKey(encode(key)) :> [value |-> NAI, deadline |-> Undefined])
                              @@ st, t, key).result,
          st |-> st]
    ELSE IF isTag THEN getTag(st, t, key)
    ELSE getQuery(st, t, key, tables, isAutoInvalidate)

get(st, t, key, tables, isTag, isAutoInvalidate) ==
  IF isTag THEN getTag(st, t, key) ELSE getQuery(st, t, key, tables, isAutoInvalidate)

\* a variant of putExpiresAt that never reads the existing entry
putExpiresAtUnread(st, t, key, tables, isTag, config, dflt) ==
  toExpiresAt(t, config, Undefined, dflt)

\* the expiry put resolves for its entry
putExpiresAt(st, t, key, tables, isTag, config, dflt) ==
  LET autoInvalidate == Len(tables) > 0
      tablesKey == IF autoInvalidate THEN Some(makeTablesKey(tables)) ELSE Undefined
      vKey == valueKey(autoInvalidate, isTag, encode(key), tablesKey)
      keepTtl == IsDefined(config) /\ Val(config).keepTtl = TRUE
      existing == IF keepTtl THEN getItem(st, vKey) ELSE Undefined
  IN toExpiresAt(t, config, IF IsDefined(existing) THEN Val(existing).expiresAt ELSE Undefined, dflt)

\* a variant of putWrites that indexes the entry under its first table only
putWritesFirstTable(key, response, tables, isTag, expiresAt) ==
  LET autoInvalidate == Len(tables) > 0
      keyEnc == encode(key)
      tablesKey == IF autoInvalidate THEN Some(makeTablesKey(tables)) ELSE Undefined
      entry == [value |-> response, expiresAt |-> expiresAt,
                tables |-> IF autoInvalidate THEN Some(tables) ELSE Undefined]
      valueWrite == <<[key |-> valueKey(autoInvalidate, isTag, keyEnc, tablesKey), value |-> entry]>>
  IN IF autoInvalidate
       THEN valueWrite
              \o <<[key |-> indexKey(tables[1], Val(tablesKey), isTag, keyEnc),
                    value |-> IF IsDefined(expiresAt) THEN Val(expiresAt) ELSE 1]>>
              \o (IF isTag THEN <<[key |-> tagMapKey(keyEnc), value |-> Val(tablesKey)]>> ELSE <<>>)
       ELSE IF isTag THEN valueWrite \o <<[key |-> tagMapKey(keyEnc), value |-> NAI]>>
       ELSE valueWrite

\* the batch put hands to setMany
putWrites(key, response, tables, isTag, expiresAt) ==
  LET autoInvalidate == Len(tables) > 0
      keyEnc == encode(key)
      tablesKey == IF autoInvalidate THEN Some(makeTablesKey(tables)) ELSE Undefined
      entry == [value |-> response, expiresAt |-> expiresAt,
                tables |-> IF autoInvalidate THEN Some(tables) ELSE Undefined]
      valueWrite == <<[key |-> valueKey(autoInvalidate, isTag, keyEnc, tablesKey), value |-> entry]>>
      indexWrites == [i \in 1..Len(tables) |->
                        [key |-> indexKey(tables[i], Val(tablesKey), isTag, keyEnc),
                         value |-> IF IsDefined(expiresAt) THEN Val(expiresAt) ELSE 1]]
  IN IF autoInvalidate /\ ~FalsyString(tablesKey)
       THEN valueWrite \o indexWrites
              \o (IF isTag THEN <<[key |-> tagMapKey(keyEnc), value |-> Val(tablesKey)]>> ELSE <<>>)
       ELSE IF isTag THEN valueWrite \o <<[key |-> tagMapKey(keyEnc), value |-> NAI]>>
       ELSE valueWrite

\* a variant of put that writes whatever the expiry
putAlways(st, t, key, response, tables, isTag, config, dflt, honors) ==
  setMany(st, putWrites(key, response, tables, isTag,
                        putExpiresAt(st, t, key, tables, isTag, config, dflt)),
          ttlSecondsOf(putExpiresAt(st, t, key, tables, isTag, config, dflt), t), t, honors)

put(st, t, key, response, tables, isTag, config, dflt, honors) ==
  LET autoInvalidate == Len(tables) > 0
      tablesKey == IF autoInvalidate THEN Some(makeTablesKey(tables)) ELSE Undefined
      expiresAt == putExpiresAt(st, t, key, tables, isTag, config, dflt)
  IN IF IsDefined(expiresAt) /\ Val(expiresAt) <= t
       THEN dropEntry(st, [autoInvalidate |-> autoInvalidate, isTag |-> isTag,
                           keyEnc |-> encode(key), tablesKey |-> tablesKey, entry |-> Undefined,
                           fallbackTables |-> Some(tables), removeTagMap |-> FALSE])
       ELSE setMany(st, putWrites(key, response, tables, isTag, expiresAt),
                    ttlSecondsOf(expiresAt, t), t, honors)

----------------------------------------------------------------------------
(* Invalidation *)

\* A mutation input (tags or tables of MutationOption) is Undefined, or
\* Some([isArray, items]): one item (isArray = FALSE) or a list of items.
\* A table item is [isTable, name]: a Table object or a plain string.
normalizeTables(tables) ==
  IF ~IsDefined(tables) THEN <<>>
  ELSE [i \in 1..Len(Val(tables).items) |-> Val(tables).items[i].name]

normalizeTags(tags) ==
  IF ~IsDefined(tags) THEN <<>>
  ELSE Val(tags).items

\* a variant of invalidateTagWith that builds its keys from the raw tag
invalidateTagWithRawKey(st, tag, mapValue) ==
  LET tables == decodeTablesKey(mapValue)
  IN IF FalsyString(mapValue) \/ Val(mapValue) = NAI
       THEN removeItems(st, {valueKey(FALSE, TRUE, tag, Undefined), tagMapKey(tag)})
       ELSE removeItems(st, {valueKey(TRUE, TRUE, tag, mapValue), tagMapKey(tag)}
                              \cup {indexKey(tables[i], Val(mapValue), TRUE, tag) :
                                      i \in 1..Len(tables)})

\* invalidateTag once its read of the tag map returned mapValue
invalidateTagWith(st, tag, mapValue) ==
  LET keyEnc == encode(tag)
      tablesKey == mapValue
      tables == decodeTablesKey(tablesKey)
  IN IF FalsyString(mapValue) \/ Val(mapValue) = NAI
       THEN removeItems(st, {valueKey(FALSE, TRUE, keyEnc, Undefined), tagMapKey(keyEnc)})
       ELSE removeItem(
              removeItems(
                removeItem(st, valueKey(TRUE, TRUE, keyEnc, tablesKey)),
                {indexKey(tables[i], Val(tablesKey), TRUE, keyEnc) : i \in 1..Len(tables)}),
              tagMapKey(keyEnc))

invalidateTag(st, tag) == invalidateTagWith(st, tag, getItem(st, tagMapKey(encode(tag))))

\* Promise.all over the tags; the calls for distinct tags touch distinct
\* keys.  Two calls for the same tag either both read the tag map before
\* either deletes (readFirst) or run one after the other.
RECURSIVE invalidateTagsFrom(_, _, _, _)
invalidateTagsFrom(st, st0, tags, readFirst) ==
  IF Len(tags) = 0 THEN st
  ELSE invalidateTagsFrom(
         invalidateTagWith(st, Head(tags),
                           getItem(IF readFirst THEN st0 ELSE st, tagMapKey(encode(Head(tags))))),
         st0, Tail(tags), readFirst)

invalidateTags(st, tags, readFirst) == invalidateTagsFrom(st, st, tags, readFirst)

\* a variant of scanIndexKeys that enumerates the whole index
scanWholeIndex(st, tables) == getKeys(st, <<INDEX_PREFIX, ":">>)

\* the index keys invalidateTables enumerates
scanIndexKeys(st, tables) ==
  UNION {getKeys(st, <<INDEX_PREFIX, ":">> \o encode(tables[i]) \o <<":">>) : i \in 1..Len(tables)}

\* the value keys rebuilt from the parsed index keys
parsedValueKeys(indexKeys) ==
  {valueKey(TRUE, Val(parseIndexKey(k)).isTag, Val(parseIndexKey(k)).keyEnc,
            Some(Val(parseIndexKey(k)).tablesKey)) :
     k \in {x \in indexKeys : IsDefined(parseIndexKey(x))}}

invalidateTables(st, tables) ==
  LET indexKeys == scanIndexKeys(st, tables)
  IN IF Len(tables) = 0 \/ indexKeys = {} THEN st
     ELSE removeItems(st, indexKeys \cup parsedValueKeys(indexKeys))

\* the count invalidateTables logs as removed=
removedCount(st, params) ==
  Cardinality(parsedValueKeys(scanIndexKeys(invalidateTags(st, normalizeTags(params.tags), TRUE),
                                            Dedupe(normalizeTables(params.tables)))))

onMutate(st, params, readFirst) ==
  LET tags == normalizeTags(params.tags)
      tables == Dedupe(normalizeTables(params.tables))
  IN invalidateTables(invalidateTags(st, tags, readFirst), tables)

----------------------------------------------------------------------------
(* Backend calls and their failures *)

\* A backend call is [fn, key, items, ttl]: setItem and setItems carry the
\* items they write and the ttl seconds; key is the key, or the prefix of
\* getKeys, or empty for a batch.  An operation issues its calls in stages:
\* the calls of one stage are issued together (one awaited call, or one
\* Promise.all) and the next stage starts once all of them resolved.
Call(fn, key) == [fn |-> fn, key |-> key, items |-> <<>>, ttl |-> Undefined]

\* fault: the call-th call of the chain-th chain of an operation rejects;
\* a rejected batch has written its first landed items
NoFault == [chain |-> 0, call |-> 0, landed |-> 0]

applyCall(st, call, t, honors) ==
  CASE call.fn = "removeItem" -> removeItem(st, call.key)
    [] call.fn \in {"setItem", "setItems"} -> setMany(st, call.items, call.ttl, t, honors)
    [] OTHER -> st

\* a rejected call leaves the storage alone, but for what a batch wrote
failedCall(st, call, landed, t, honors) ==
  IF call.fn = "setItems"
    THEN setMany(st, SubSeq(call.items, 1, IF landed < Len(call.items) THEN landed ELSE 0),
                 call.ttl, t, honors)
    ELSE st

\* every call of a stage is issued; the failing-th one rejects
RECURSIVE runCalls(_, _, _, _, _, _)
runCalls(st, calls, failing, landed, t, honors) ==
  IF Len(calls) = 0 THEN st
  ELSE runCalls(IF failing = 1 THEN failedCall(st, Head(calls), landed, t, honors)
                ELSE applyCall(st, Head(calls), t, honors),
                Tail(calls), failing - 1, landed, t, honors)

\* what the trace keeps of a stage: which call on which key, and who
\* issued it: by is [fn, chain], the function and its chain in the operation
By(fn, chain) == [fn |-> fn, chain |-> chain]

Describe(stage, by) ==
  [i \in 1..Len(stage) |-> [fn |-> stage[i].fn, key |-> stage[i].key, by |-> by]]

\* a variant of runChain that catches the rejection and carries on
RECURSIVE runChainSwallowing(_, _, _, _, _, _, _)
runChainSwallowing(st, stages, failing, landed, by, t, honors) ==
  IF Len(stages) = 0 THEN [st |-> st, issued |-> <<>>, failed |-> FALSE]
  ELSE LET stage == Head(stages)
           hit == failing >= 1 /\ failing <= Len(stage)
           rest == runChainSwallowing(runCalls(st, stage, IF hit THEN failing ELSE 0,
                                               landed, t, honors),
                                      Tail(stages), failing - Len(stage), landed, by, t, honors)
       IN [st |-> rest.st, issued |-> Describe(stage, by) \o rest.issued, failed |-> FALSE]

\* An async function awaits its stages one after the other: a rejected
\* stage rejects the function, and no later stage is issued.
\* [st, issued, failed]
RECURSIVE runChain(_, _, _, _, _, _, _)
runChain(st, stages, failing, landed, by, t, honors) ==
  IF Len(stages) = 0 THEN [st |-> st, issued |-> <<>>, failed |-> FALSE]
  ELSE LET stage == Head(stages)
           hit == failing >= 1 /\ failing <= Len(stage)
           st1 == runCalls(st, stage, IF hit THEN failing ELSE 0, landed, t, honors)
           rest == IF hit THEN [st |-> st1, issued |-> <<>>, failed |-> TRUE]
                   ELSE runChain(st1, Tail(stages), failing - Len(stage), landed, by, t, honors)
       IN [st |-> rest.st, issued |-> Describe(stage, by) \o rest.issued, failed |-> rest.failed]

RECURSIVE SetToSeq(_)
SetToSeq(set) ==
  IF set = {} THEN <<>>
  ELSE LET x == CHOOSE y \in set : TRUE IN <<x>> \o SetToSeq(set \ {x})

RECURSIVE CountCalls(_)
CountCalls(stages) ==
  IF Len(stages) = 0 THEN 0 ELSE Len(Head(stages)) + CountCalls(Tail(stages))

\* the stages of dropEntry
dropEntryStages(p) ==
  LET tables == IF IsDefined(p.entry) /\ IsDefined(Val(p.entry).tables)
                  THEN Val(Val(p.entry).tables)
                  ELSE IF IsDefined(p.fallbackTables) THEN Val(p.fallbackTables)
                  ELSE decodeTablesKey(p.tablesKey)
      resolvedTablesKey == IF p.autoInvalidate
                             THEN (IF IsDefined(p.tablesKey) THEN p.tablesKey
                                   ELSE Some(makeTablesKey(tables)))
                             ELSE Undefined
  IN <<<<Call("removeItem",
              valueKey(p.autoInvalidate, p.isTag, p.keyEnc, resolvedTablesKey))>>>>
     \o (IF p.isTag /\ p.removeTagMap
           THEN <<<<Call("removeItem", tagMapKey(p.keyEnc))>>>> ELSE <<>>)
     \o (IF ~p.autoInvalidate \/ Len(tables) = 0 \/ FalsyString(resolvedTablesKey) THEN <<>>
         ELSE <<[i \in 1..Len(tables) |->
                   Call("removeItem",
                        indexKey(tables[i], Val(resolvedTablesKey), p.isTag, p.keyEnc))]>>)

\* the stages of get, as far as the reads let it go
getStages(st, t, key, tables, isTag, isAutoInvalidate) ==
  LET keyEnc == encode(key)
      mapValue == getItem(st, tagMapKey(keyEnc))
      autoInvalidate == IF isTag THEN Val(mapValue) # NAI
                        ELSE IF IsDefined(isAutoInvalidate) THEN Val(isAutoInvalidate)
                        ELSE Len(tables) > 0
      tablesKey == IF ~autoInvalidate THEN Undefined
                   ELSE IF isTag THEN mapValue ELSE Some(makeTablesKey(tables))
      vKey == valueKey(autoInvalidate, isTag, keyEnc, tablesKey)
      entry == getItem(st, vKey)
  IN (IF isTag THEN <<<<Call("getItem", tagMapKey(keyEnc))>>>> ELSE <<>>)
     \o (IF isTag /\ FalsyString(mapValue) THEN <<>>
         ELSE <<<<Call("getItem", vKey)>>>>
              \o (IF IsDefined(entry) /\ isExpired(Val(entry), t)
                    THEN dropEntryStages(
                           [autoInvalidate |-> autoInvalidate, isTag |-> isTag,
                            keyEnc |-> keyEnc, tablesKey |-> tablesKey, entry |-> entry,
                            fallbackTables |-> Some(IF isTag THEN decodeTablesKey(tablesKey)
                                                    ELSE tables),
                            removeTagMap |-> isTag])
                    ELSE <<>>))

\* the one stage of setMany
setManyStages(items, ttlSeconds, batch) ==
  IF batch
    THEN <<<<[fn |-> "setItems", key |-> <<>>, items |-> items, ttl |-> ttlSeconds]>>>>
    ELSE <<[i \in 1..Len(items) |->
              [fn |-> "setItem", key |-> items[i].key, items |-> <<items[i]>>,
               ttl |-> ttlSeconds]]>>

\* the stages of put
putStages(st, t, key, response, tables, isTag, config, dflt, batch) ==
  LET autoInvalidate == Len(tables) > 0
      tablesKey == IF autoInvalidate THEN Some(makeTablesKey(tables)) ELSE Undefined
      keepTtl == IsDefined(config) /\ Val(config).keepTtl = TRUE
      expiresAt == putExpiresAt(st, t, key, tables, isTag, config, dflt)
  IN (IF keepTtl
        THEN <<<<Call("getItem", valueKey(autoInvalidate, isTag, encode(key), tablesKey))>>>>
        ELSE <<>>)
     \o (IF IsDefined(expiresAt) /\ Val(expiresAt) <= t
           THEN dropEntryStages([autoInvalidate |-> autoInvalidate, isTag |-> isTag,
                                 keyEnc |-> encode(key), tablesKey |-> tablesKey,
                                 entry |-> Undefined, fallbackTables |-> Some(tables),
                                 removeTagMap |-> FALSE])
           ELSE setManyStages(putWrites(key, response, tables, isTag, expiresAt),
                              ttlSecondsOf(expiresAt, t), batch))

\* a variant of invalidateTagStages that deletes the tag-map record first
invalidateTagStagesMapFirst(tag, mapValue) ==
  LET keyEnc == encode(tag)
      tables == decodeTablesKey(mapValue)
  IN <<<<Call("getItem", tagMapKey(keyEnc))>>>>
     \o (IF FalsyString(mapValue) \/ Val(mapValue) = NAI
           THEN <<<<Call("removeItem", valueKey(FALSE, TRUE, keyEnc, Undefined)),
                    Call("removeItem", tagMapKey(keyEnc))>>>>
           ELSE <<<<Call("removeItem", tagMapKey(keyEnc))>>,
                  <<Call("removeItem", valueKey(TRUE, TRUE, keyEnc, mapValue))>>,
                  [i \in 1..Len(tables) |->
                     Call("removeItem", indexKey(tables[i], Val(mapValue), TRUE, keyEnc))]>>)

\* the stages of invalidateTag once its read of the tag map returned mapValue
invalidateTagStages(tag, mapValue) ==
  LET keyEnc == encode(tag)
      tables == decodeTablesKey(mapValue)
  IN <<<<Call("getItem", tagMapKey(keyEnc))>>>>
     \o (IF FalsyString(mapValue) \/ Val(mapValue) = NAI
           THEN <<<<Call("removeItem", valueKey(FALSE, TRUE, keyEnc, Undefined)),
                    Call("removeItem", tagMapKey(keyEnc))>>>>
           ELSE <<<<Call("removeItem", valueKey(TRUE, TRUE, keyEnc, mapValue))>>,
                  [i \in 1..Len(tables) |->
                     Call("removeItem", indexKey(tables[i], Val(mapValue), TRUE, keyEnc))],
                  <<Call("removeItem", tagMapKey(keyEnc))>>>>)

\* the stages of invalidateTables: one getKeys per table, then one
\* Promise.all of deletes
invalidateTablesStages(st, tables) ==
  LET indexKeys == scanIndexKeys(st, tables)
      deletes == SetToSeq(indexKeys) \o SetToSeq(parsedValueKeys(indexKeys))
  IN [i \in 1..Len(tables) |->
        <<Call("getKeys", <<INDEX_PREFIX, ":">> \o encode(tables[i]) \o <<":">>)>>]
     \o (IF Len(tables) = 0 \/ indexKeys = {} THEN <<>>
         ELSE <<[i \in 1..Len(deletes) |-> Call("removeItem", deletes[i])]>>)

Outcome(failed) == IF failed THEN "rejected" ELSE "resolved"

\* get under a fault: [outcome, result, st, calls]
getRun(st, t, key, tables, isTag, isAutoInvalidate, fault, honors) ==
  LET r == runChain(st, getStages(st, t, key, tables, isTag, isAutoInvalidate),
                    fault.call, fault.landed, By("get", 1), t, honors)
  IN [outcome |-> Outcome(r.failed),
      result |-> IF r.failed THEN Undefined
                 ELSE get(st, t, key, tables, isTag, isAutoInvalidate).result,
      st |-> r.st, calls |-> r.issued]

\* put under a fault: [outcome, st, calls]
putRun(st, t, key, response, tables, isTag, config, dflt, batch, fault, honors) ==
  LET r == runChain(st, putStages(st, t, key, response, tables, isTag, config, dflt, batch),
                    fault.call, fault.landed, By("put", 1), t, honors)
  IN [outcome |-> Outcome(r.failed), st |-> r.st, calls |-> r.issued]

\* Promise.all over the tags: every invalidateTag runs, whatever the others
\* do; i is the chain of the first tag.  [st, issued, failed]
RECURSIVE invalidateTagsRun(_, _, _, _, _, _, _, _)
invalidateTagsRun(st, st0, tags, readFirst, fault, i, t, honors) ==
  IF Len(tags) = 0 THEN [st |-> st, issued |-> <<>>, failed |-> FALSE]
  ELSE LET mapValue == getItem(IF readFirst THEN st0 ELSE st, tagMapKey(encode(Head(tags))))
           r == runChain(st, invalidateTagStages(Head(tags), mapValue),
                         IF fault.chain = i THEN fault.call ELSE 0, fault.landed,
                         By("invalidateTag", i), t, honors)
           rest == invalidateTagsRun(r.st, st0, Tail(tags), readFirst, fault, i + 1, t, honors)
       IN [st |-> rest.st, issued |-> r.issued \o rest.issued,
           failed |-> r.failed \/ rest.failed]

\* onMutate under a fault: the chains are the invalidateTag of each tag, in
\* order, and invalidateTables.  [outcome, st, calls]
onMutateRun(st, params, readFirst, fault, t, honors) ==
  LET tags == normalizeTags(params.tags)
      tables == Dedupe(normalizeTables(params.tables))
      byTags == invalidateTagsRun(st, st, tags, readFirst, fault, 1, t, honors)
      byTables == runChain(byTags.st, invalidateTablesStages(byTags.st, tables),
                           IF fault.chain = Len(tags) + 1 THEN fault.call ELSE 0, fault.landed,
                           By("invalidateTables", Len(tags) + 1), t, honors)
  IN [outcome |-> Outcome(byTags.failed \/ byTables.failed),
      st |-> byTables.st, calls |-> byTags.issued \o byTables.issued]

----------------------------------------------------------------------------
(* Operations in flight *)

\* A started operation runs as chains, one per async function that issues
\* backend calls: put is one chain, onMutate is one invalidateTag per tag
\* and one invalidateTables, all started together by its Promise.all.  A
\* chain holds the calls it has issued and awaits (pending; each reaches
\* the backend on its own, in any order), the stages it issues after them
\* (rest), and for invalidateTables the index keys enumerated so far
\* (found).  What a chain does after a read is decided by what the read
\* returned at the moment it reached the backend.
RECURSIVE issueNext(_)
issueNext(chain) ==
  IF Len(chain.pending) > 0 \/ Len(chain.rest) = 0 THEN chain
  ELSE issueNext([chain EXCEPT !.pending = Head(chain.rest), !.rest = Tail(chain.rest)])

Chain(by, tag, stages) ==
  issueNext([by |-> by, tag |-> tag, pending |-> <<>>, rest |-> stages, found |-> {}])

\* a variant of scanStages that enumerates the whole index for each table
scanWholeIndexStages(tables) ==
  [i \in 1..Len(tables) |-> <<Call("getKeys", <<INDEX_PREFIX, ":">>)>>]

\* the getKeys of invalidateTables, one awaited after the other
scanStages(tables) ==
  [i \in 1..Len(tables) |->
     <<Call("getKeys", <<INDEX_PREFIX, ":">> \o encode(tables[i]) \o <<":">>)>>]

\* a variant of deleteStages that also deletes the tag-map record of the tag
\* entries it found
deleteStagesAndTagMaps(indexKeys) ==
  LET tagMaps == {tagMapKey(Val(parseIndexKey(k)).keyEnc) :
                    k \in {x \in indexKeys : /\ IsDefined(parseIndexKey(x))
                                             /\ Val(parseIndexKey(x)).isTag}}
      deletes == SetToSeq(indexKeys) \o SetToSeq(parsedValueKeys(indexKeys) \cup tagMaps)
  IN IF indexKeys = {} THEN <<>>
     ELSE <<[i \in 1..Len(deletes) |-> Call("removeItem", deletes[i])]>>

\* the Promise.all of deletes of invalidateTables
deleteStages(indexKeys) ==
  LET deletes == SetToSeq(indexKeys) \o SetToSeq(parsedValueKeys(indexKeys))
  IN IF indexKeys = {} THEN <<>>
     ELSE <<[i \in 1..Len(deletes) |-> Call("removeItem", deletes[i])]>>

\* the chains onMutate starts
onMutateChains(params) ==
  LET tags == normalizeTags(params.tags)
      tables == Dedupe(normalizeTables(params.tables))
  IN [i \in 1..Len(tags) |->
        Chain(By("invalidateTag", i), tags[i],
              <<<<Call("getItem", tagMapKey(encode(tags[i])))>>>>)]
     \o <<Chain(By("invalidateTables", Len(tags) + 1), <<>>, scanStages(tables))>>

\* the chain put starts: with keepTtl it first reads the existing entry
putChain(st, t, key, response, tables, isTag, config, dflt, batch) ==
  LET stages == putStages(st, t, key, response, tables, isTag, config, dflt, batch)
      keepTtl == IsDefined(config) /\ Val(config).keepTtl = TRUE
  IN Chain(By("put", 1), <<>>, IF keepTtl THEN <<Head(stages)>> ELSE stages)

\* the calls the chains have pending, as the trace keeps them
RECURSIVE describePending(_)
describePending(chains) ==
  IF Len(chains) = 0 THEN <<>>
  ELSE Describe(Head(chains).pending, Head(chains).by) \o describePending(Tail(chains))

Without(list, j) == SubSeq(list, 1, j - 1) \o SubSeq(list, j + 1, Len(list))

\* the j-th pending call of a chain of task reaches the backend: [st, chain]
settleCall(st, task, chain, j, t, honors, dflt, batch) ==
  LET call == chain.pending[j]
      left == [chain EXCEPT !.pending = Without(chain.pending, j)]
      found == chain.found \cup getKeys(st, call.key)
      next ==
        CASE chain.by.fn = "invalidateTag" /\ call.fn = "getItem" ->
               [left EXCEPT !.rest = Tail(invalidateTagStages(chain.tag, getItem(st, call.key)))]
          [] chain.by.fn = "invalidateTables" /\ call.fn = "getKeys" ->
               [left EXCEPT !.found = found,
                            !.rest = IF Len(chain.rest) > 0 THEN chain.rest
                                     ELSE deleteStages(found)]
          [] chain.by.fn = "put" /\ call.fn = "getItem" ->
               [left EXCEPT !.rest = Tail(putStages(st, task.at, task.key, task.response,
                                                    task.tables, task.isTag, task.config,
                                                    dflt, batch))]
          [] OTHER -> left
  IN [st |-> applyCall(st, call, t, honors), chain |-> issueNext(next)]

finished(task) ==
  \A c \in DOMAIN task.chains :
    Len(task.chains[c].pending) = 0 /\ Len(task.chains[c].rest) = 0

----------------------------------------------------------------------------
(* Inputs *)

users == <<"u">>
posts == <<"p">>

Hints == {Undefined, Some(TRUE), Some(FALSE)}

\* the payload of the n-th operation: payloads are opaque, each put stores a fresh one
Response(n) == n

Config(px, ex, pxat, exat, keepTtl) ==
  Some([px |-> px, ex |-> ex, pxat |-> pxat, exat |-> exat, keepTtl |-> keepTtl])

TableItem(isTable, name) == [isTable |-> isTable, name |-> name]
One(item) == Some([isArray |-> FALSE, items |-> <<item>>])
Many(items) == Some([isArray |-> TRUE, items |-> items])
Mutation(tags, tables) == [tags |-> tags, tables |-> tables]
Lookup(tables, isTag, hint) == [tables |-> tables, isTag |-> isTag, hint |-> hint]

----------------------------------------------------------------------------
(* State machine *)

NoOp ==
  [op |-> "none", key |-> <<>>, tables |-> <<>>, isTag |-> FALSE, hint |-> Undefined,
   response |-> 0, config |-> Undefined, result |-> Undefined, expiresAt |-> Undefined,
   at |-> 0, params |-> Mutation(Undefined, Undefined), removed |-> 0,
   outcome |-> "resolved", calls |-> <<>>, fault |-> NoFault, overlapped |-> <<>>]

\* drivers: whether the ttl option is honored; batches: whether setItems exists
InitDrivers(defaults, drivers, batches) ==
  /\ storage = <<>>
  /\ now \in StartTimes
  /\ defaultConfig \in defaults
  /\ honorsTtl \in drivers
  /\ hasSetItems \in batches
  /\ twin = <<>>
  /\ inflight = <<>>
  /\ last = NoOp
  /\ before = <<>>
  /\ hiddenTags = {}
  /\ putLog = <<>>
  /\ ops = 0
  /\ ticks = 0

\* a storage built by createStorage, which always offers setItems
InitWith(defaults, drivers) == InitDrivers(defaults, drivers, {TRUE})

Get(key, tables, isTag, isAutoInvalidate) ==
  /\ ops < MaxOps
  /\ LET r == get(storage, now, key, tables, isTag, isAutoInvalidate)
     IN /\ storage' = r.st
        /\ last' = [NoOp EXCEPT !.op = "get", !.key = key, !.tables = tables, !.isTag = isTag,
                                !.hint = isAutoInvalidate, !.result = r.result, !.at = now]
  /\ before' = storage
  /\ ops' = ops + 1
  /\ UNCHANGED <<now, defaultConfig, honorsTtl, hasSetItems, twin, inflight, hiddenTags, putLog, ticks>>

Put(key, response, tables, isTag, config) ==
  /\ ops < MaxOps
  /\ storage' = put(storage, now, key, response, tables, isTag, config, defaultConfig, honorsTtl)
  /\ last' = [NoOp EXCEPT !.op = "put", !.key = key, !.tables = tables, !.isTag = isTag,
                          !.response = response, !.config = config, !.at = now,
                          !.expiresAt = putExpiresAt(storage, now, key, tables, isTag,
                                                     config, defaultConfig)]
  /\ before' = storage
  /\ hiddenTags' = IF isTag THEN hiddenTags \ {key} ELSE hiddenTags
  /\ LET expiresAt == putExpiresAt(storage, now, key, tables, isTag, config, defaultConfig)
         vKey == valueKey(Len(tables) > 0, isTag, encode(key),
                          IF Len(tables) > 0 THEN Some(makeTablesKey(tables)) ELSE Undefined)
     IN putLog' = IF Val(expiresAt) > now
                    THEN (vKey :> [key |-> key, tables |-> tables, isTag |-> isTag,
                                   response |-> response, expiresAt |-> Val(expiresAt),
                                   seq |-> ops + 1])
                         @@ [k \in {x \in DOMAIN putLog :
                                      ~(isTag /\ putLog[x].isTag /\ putLog[x].key = key)}
                               |-> putLog[k]]
                    ELSE [k \in DOMAIN putLog \ {vKey} |-> putLog[k]]
  /\ ops' = ops + 1
  /\ UNCHANGED <<now, defaultConfig, honorsTtl, hasSetItems, twin, inflight, ticks>>

HasDuplicates(list) == Cardinality(Range(list)) < Len(list)

OnMutate(params) ==
  /\ ops < MaxOps
  /\ \E readFirst \in (IF HasDuplicates(normalizeTags(params.tags)) THEN BOOLEAN ELSE {TRUE}) :
       storage' = onMutate(storage, params, readFirst)
  /\ last' = [NoOp EXCEPT !.op = "onMutate", !.params = params, !.at = now,
                          !.removed = removedCount(storage, params)]
  /\ before' = storage
  /\ hiddenTags' = hiddenTags \cup Range(normalizeTags(params.tags))
  /\ putLog' = [k \in {x \in DOMAIN putLog :
                         /\ Range(putLog[x].tables) \cap Range(normalizeTables(params.tables)) = {}
                         /\ ~(putLog[x].isTag /\ putLog[x].key \in Range(normalizeTags(params.tags)))}
                  |-> putLog[k]]
  /\ ops' = ops + 1
  /\ UNCHANGED <<now, defaultConfig, honorsTtl, hasSetItems, twin, inflight, ticks>>

\* Date.now() moves on; a backend that honors TTL drops what is due
Tick(d) ==
  /\ ticks < MaxTicks
  /\ now' = now + d
  /\ storage' = IF honorsTtl THEN evict(storage, now + d) ELSE storage
  /\ ticks' = ticks + 1
  /\ UNCHANGED <<defaultConfig, honorsTtl, hasSetItems, twin, inflight,
               last, before, hiddenTags, putLog, ops>>


\* A call to put or onMutate returns a promise: the operation is in flight
\* until every chain of it has settled.  st0 is the storage it started on,
\* calls the calls it has issued, in the order of issue, and seen the
\* operations that settled while it was in flight.
Task(op) ==
  [op |-> op, key |-> <<>>, response |-> 0, tables |-> <<>>, isTag |-> FALSE,
   config |-> Undefined, params |-> Mutation(Undefined, Undefined), at |-> now,
   st0 |-> storage, expiresAt |-> Undefined, chains |-> <<>>, calls |-> <<>>, seen |-> <<>>]

StartPut(key, response, tables, isTag, config) ==
  /\ ops < MaxOps
  /\ inflight' = Append(inflight,
       [Task("put") EXCEPT
          !.key = key, !.response = response, !.tables = tables, !.isTag = isTag,
          !.config = config,
          !.expiresAt = IF IsDefined(config) /\ Val(config).keepTtl = TRUE THEN Undefined
                        ELSE putExpiresAt(storage, now, key, tables, isTag, config, defaultConfig),
          !.chains = <<putChain(storage, now, key, response, tables, isTag, config,
                                defaultConfig, hasSetItems)>>,
          !.calls = describePending(<<putChain(storage, now, key, response, tables, isTag,
                                               config, defaultConfig, hasSetItems)>>)])
  /\ ops' = ops + 1
  /\ UNCHANGED <<storage, now, defaultConfig, honorsTtl, hasSetItems, twin, last, before,
                 hiddenTags, putLog, ticks>>

StartOnMutate(params) ==
  /\ ops < MaxOps
  /\ inflight' = Append(inflight,
       [Task("onMutate") EXCEPT !.params = params, !.chains = onMutateChains(params),
                                !.calls = describePending(onMutateChains(params))])
  /\ ops' = ops + 1
  /\ UNCHANGED <<storage, now, defaultConfig, honorsTtl, hasSetItems, twin, last, before,
                 hiddenTags, putLog, ticks>>

\* the j-th pending call of chain c of the n-th operation in flight reaches
\* the backend
Complete(n, c, j) ==
  /\ n \in DOMAIN inflight
  /\ c \in DOMAIN inflight[n].chains
  /\ j \in DOMAIN inflight[n].chains[c].pending
  /\ LET task == inflight[n]
         chain == task.chains[c]
         call == chain.pending[j]
         r == settleCall(storage, task, chain, j, now, honorsTtl, defaultConfig, hasSetItems)
     IN /\ storage' = r.st
        /\ inflight' =
             [inflight EXCEPT
                ![n].chains[c] = r.chain,
                ![n].calls = IF Len(chain.pending) = 1
                               THEN @ \o Describe(r.chain.pending, chain.by) ELSE @,
                ![n].expiresAt = IF chain.by.fn = "put" /\ call.fn = "getItem"
                                   THEN putExpiresAt(storage, task.at, task.key, task.tables,
                                                     task.isTag, task.config, defaultConfig)
                                   ELSE @]
  /\ UNCHANGED <<now, defaultConfig, honorsTtl, hasSetItems, twin, last, before, hiddenTags,
                 putLog, ops, ticks>>

\* the promise of the n-th operation in flight resolves
Settle(n) ==
  /\ n \in DOMAIN inflight
  /\ finished(inflight[n])
  /\ LET task == inflight[n]
         done == [NoOp EXCEPT !.op = task.op, !.key = task.key, !.tables = task.tables,
                              !.isTag = task.isTag, !.response = task.response,
                              !.config = task.config, !.params = task.params, !.at = task.at,
                              !.expiresAt = task.expiresAt, !.calls = task.calls]
         others == Without(inflight, n)
     IN /\ last' = [done EXCEPT !.overlapped = task.seen]
        /\ before' = task.st0
        /\ inflight' = [i \in DOMAIN others |-> [others[i] EXCEPT !.seen = Append(@, done)]]
  /\ UNCHANGED <<storage, now, defaultConfig, honorsTtl, hasSetItems, twin, hiddenTags, putLog,
                 ops, ticks>>

----------------------------------------------------------------------------
(* Spec: invalidation by table and by tag.  Every entry gets the default  *)
(* TTL and the clock stands still, so nothing expires.                     *)

Fingerprints == {<<"k">>, <<":">>}
TableLists == {<<>>, <<posts>>, <<users, posts>>, <<posts, users>>}

\* a tag lookup ignores its tables and hint
Lookups ==
  {Lookup(<<>>, TRUE, Undefined),
   Lookup(<<>>, FALSE, Undefined),
   Lookup(<<posts, users>>, FALSE, Some(TRUE))}

Mutations ==
  {Mutation(Undefined, One(TableItem(FALSE, users))),
   Mutation(Undefined, Many(<<TableItem(TRUE, posts)>>)),
   Mutation(One(<<"k">>), Undefined),
   Mutation(Many(<<<<":">>, <<":">>>>),
            Many(<<TableItem(FALSE, users), TableItem(TRUE, users)>>))}

Init == InitWith({Undefined}, {FALSE})

Next ==
  \/ \E key \in Fingerprints, l \in Lookups : Get(key, l.tables, l.isTag, l.hint)
  \/ \E key \in Fingerprints, tables \in TableLists, isTag \in BOOLEAN :
       Put(key, Response(ops + 1), tables, isTag, Undefined)
  \/ \E params \in Mutations : OnMutate(params)

Spec == Init /\ [][Next]_vars

\* the calls an operation issues when none fails
RECURSIVE Flatten(_)
Flatten(stages) == IF Len(stages) = 0 THEN <<>> ELSE Head(stages) \o Flatten(Tail(stages))

\* the calls of a trace that one chain issued
ChainCalls(calls, chain) == SelectSeq(calls, LAMBDA c : c.by.chain = chain)

\* the faults that can hit one chain of calls; only a batch lands in part
FaultsOf(stages) ==
  {NoFault}
    \cup {[chain |-> 1, call |-> c, landed |-> 0] : c \in 1..CountCalls(stages)}
    \cup {[chain |-> 1, call |-> c, landed |-> 1] :
            c \in {x \in 1..CountCalls(stages) : Flatten(stages)[x].fn = "setItems"}}

\* the faults that can hit one of several chains issuing calls in all
FaultsIn(chains, calls) ==
  {NoFault} \cup {[chain |-> i, call |-> c, landed |-> 0] : i \in 1..chains, c \in 1..calls}

\* get while fault waits in the backend
GetF(key, tables, isTag, isAutoInvalidate, fault) ==
  /\ ops < MaxOps
  /\ LET r == getRun(storage, now, key, tables, isTag, isAutoInvalidate, fault, honorsTtl)
     IN /\ storage' = r.st
        /\ last' = [NoOp EXCEPT !.op = "get", !.key = key, !.tables = tables,
                                !.isTag = isTag, !.hint = isAutoInvalidate,
                                !.result = r.result, !.at = now, !.outcome = r.outcome,
                                !.calls = r.calls, !.fault = fault]
  /\ before' = storage
  /\ ops' = ops + 1
  /\ UNCHANGED <<now, defaultConfig, honorsTtl, hasSetItems, twin, inflight, hiddenTags, putLog, ticks>>

\* put while fault waits in the backend
PutF(key, response, tables, isTag, config, fault) ==
  /\ ops < MaxOps
  /\ LET r == putRun(storage, now, key, response, tables, isTag, config, defaultConfig,
                     hasSetItems, fault, honorsTtl)
     IN /\ storage' = r.st
        /\ last' = [NoOp EXCEPT !.op = "put", !.key = key, !.tables = tables,
                                !.isTag = isTag, !.response = response,
                                !.config = config, !.at = now,
                                !.expiresAt = putExpiresAt(storage, now, key, tables,
                                                           isTag, config, defaultConfig),
                                !.outcome = r.outcome, !.calls = r.calls, !.fault = fault]
  /\ before' = storage
  /\ ops' = ops + 1
  /\ UNCHANGED <<now, defaultConfig, honorsTtl, hasSetItems, twin, inflight, hiddenTags, putLog, ticks>>

\* onMutate while fault waits in the backend
OnMutateF(params, fault) ==
  /\ ops < MaxOps
  /\ \E readFirst \in (IF HasDuplicates(normalizeTags(params.tags)) THEN BOOLEAN ELSE {TRUE}) :
       LET r == onMutateRun(storage, params, readFirst, fault, now, honorsTtl)
       IN /\ fault # NoFault => fault.call <= Len(ChainCalls(r.calls, fault.chain))
          /\ storage' = r.st
          /\ last' = [NoOp EXCEPT !.op = "onMutate", !.params = params, !.at = now,
                                  !.outcome = r.outcome, !.calls = r.calls, !.fault = fault]
  /\ before' = storage
  /\ ops' = ops + 1
  /\ UNCHANGED <<now, defaultConfig, honorsTtl, hasSetItems, twin, inflight, hiddenTags, putLog, ticks>>

----------------------------------------------------------------------------
(* SpecFaults: the operations over a backend whose calls can fail, with    *)
(* and without the batch method; hiddenTags and putLog are not kept here.  *)

FaultFingerprint == <<"k">>

\* [tables, isTag, config] of the puts.  No config: now + 1000; keepTtl
\* over {px 0}: the stored expiry, else now
FaultPuts ==
  {[tables |-> <<>>, isTag |-> TRUE, config |-> Undefined],
   [tables |-> <<users, posts>>, isTag |-> TRUE, config |-> Undefined],
   [tables |-> <<users, posts>>, isTag |-> TRUE,
    config |-> Config(Some(0), Undefined, Undefined, Undefined, TRUE)]}

FaultLookups == {Lookup(<<>>, TRUE, Undefined)}

FaultMutations ==
  {Mutation(One(<<"k">>), Undefined),
   Mutation(Undefined, One(TableItem(FALSE, users)))}

FaultTickSteps == {1000}

InitFaults == InitDrivers({Undefined}, {FALSE}, BOOLEAN)

NextFaults ==
  \/ \E l \in FaultLookups :
       \E fault \in FaultsOf(getStages(storage, now, FaultFingerprint, l.tables, l.isTag,
                                       l.hint)) :
         GetF(FaultFingerprint, l.tables, l.isTag, l.hint, fault)
  \/ \E p \in FaultPuts :
       \E fault \in FaultsOf(putStages(storage, now, FaultFingerprint, Response(ops + 1),
                                       p.tables, p.isTag, p.config, defaultConfig,
                                       hasSetItems)) :
         PutF(FaultFingerprint, Response(ops + 1), p.tables, p.isTag, p.config, fault)
  \/ \E params \in FaultMutations :
       \E fault \in FaultsIn(Len(normalizeTags(params.tags)) + 1,
                             Len(onMutateRun(storage, params, TRUE, NoFault, now,
                                             honorsTtl).calls)) :
         OnMutateF(params, fault)
  \/ \E d \in FaultTickSteps : Tick(d)

SpecFaults == InitFaults /\ [][NextFaults]_vars

\* the same get on both backends
GetBoth(key, tables, isTag, isAutoInvalidate) ==
  /\ ops < MaxTwinOps
  /\ LET r == get(storage, now, key, tables, isTag, isAutoInvalidate)
     IN /\ storage' = r.st
        /\ last' = [NoOp EXCEPT !.op = "get", !.key = key, !.tables = tables, !.isTag = isTag,
                                !.hint = isAutoInvalidate, !.result = r.result, !.at = now]
  /\ twin' = get(twin, now, key, tables, isTag, isAutoInvalidate).st
  /\ before' = storage
  /\ ops' = ops + 1
  /\ UNCHANGED <<now, defaultConfig, honorsTtl, hasSetItems, inflight, hiddenTags, putLog, ticks>>

\* the same put on both backends
PutBoth(key, response, tables, isTag, config) ==
  /\ ops < MaxTwinOps
  /\ storage' = put(storage, now, key, response, tables, isTag, config, defaultConfig, honorsTtl)
  /\ twin' = put(twin, now, key, response, tables, isTag, config, defaultConfig, TRUE)
  /\ last' = [NoOp EXCEPT !.op = "put", !.key = key, !.tables = tables, !.isTag = isTag,
                          !.response = response, !.config = config, !.at = now,
                          !.expiresAt = putExpiresAt(storage, now, key, tables, isTag,
                                                     config, defaultConfig)]
  /\ before' = storage
  /\ ops' = ops + 1
  /\ UNCHANGED <<now, defaultConfig, honorsTtl, hasSetItems, inflight, hiddenTags, putLog, ticks>>

\* the same onMutate on both backends
OnMutateBoth(params) ==
  /\ ops < MaxTwinOps
  /\ storage' = onMutate(storage, params, TRUE)
  /\ twin' = onMutate(twin, params, TRUE)
  /\ last' = [NoOp EXCEPT !.op = "onMutate", !.params = params, !.at = now,
                          !.removed = removedCount(storage, params)]
  /\ before' = storage
  /\ ops' = ops + 1
  /\ UNCHANGED <<now, defaultConfig, honorsTtl, hasSetItems, inflight, hiddenTags, putLog, ticks>>

\* Date.now() moves on for both backends; the one that honors TTL drops
\* what is due
TickBoth(d) ==
  /\ ticks < MaxTwinTicks
  /\ now' = now + d
  /\ storage' = IF honorsTtl THEN evict(storage, now + d) ELSE storage
  /\ twin' = evict(twin, now + d)
  /\ ticks' = ticks + 1
  /\ UNCHANGED <<defaultConfig, honorsTtl, hasSetItems, inflight, last, before, hiddenTags, putLog, ops>>

----------------------------------------------------------------------------
(* SpecTwin: one history of operations run on a backend that ignores the  *)
(* ttl option (storage) and on one that honors it (twin), with TTLs that  *)
(* are and are not whole seconds; hiddenTags and putLog are not kept.     *)

TwinFingerprint == <<"k">>
TwinTableLists == {<<>>, <<users, posts>>}
TwinTickSteps == {1000}

\* no config: 1000 ms; keepTtl over px 1500: the expiry of the entry read
\* if it is still valid, else 1500 ms, which is rounded up to 2 s.  The
\* histories of this specification are one operation and one clock advance
\* longer than those of the others.
TwinConfigs ==
  {Undefined,
   Config(Some(1500), Undefined, Undefined, Undefined, TRUE)}

TwinLookups ==
  {Lookup(<<>>, TRUE, Undefined),
   Lookup(<<>>, FALSE, Some(FALSE)),
   Lookup(<<posts, users>>, FALSE, Some(TRUE))}

TwinMutations ==
  {Mutation(Undefined, One(TableItem(FALSE, users))),
   Mutation(One(<<"k">>), Undefined)}

InitTwin == InitWith({Undefined}, {FALSE})

NextTwin ==
  \/ \E l \in TwinLookups : GetBoth(TwinFingerprint, l.tables, l.isTag, l.hint)
  \/ \E tables \in TwinTableLists, isTag \in BOOLEAN, config \in TwinConfigs :
       PutBoth(TwinFingerprint, Response(ops + 1), tables, isTag, config)
  \/ \E params \in TwinMutations : OnMutateBoth(params)
  \/ \E d \in TwinTickSteps : TickBoth(d)

SpecTwin == InitTwin /\ [][NextTwin]_vars

----------------------------------------------------------------------------
(* SpecExpiry: entries of every shape with a short and a long TTL, on a   *)
(* driver that honors the ttl option and on one that ignores it, while    *)
(* the clock advances.                                                     *)

ExpiryFingerprint == <<"k">>
ExpiryTableLists == {<<>>, <<users, posts>>}
ExpiryTickSteps == {500, 1000}

\* no config: the default TTL of 1000 ms; px 1500: not a whole number of seconds
ExpiryConfigs == {Undefined, Config(Some(1500), Undefined, Undefined, Undefined, FALSE)}

ExpiryLookups ==
  {Lookup(<<>>, TRUE, Undefined),
   Lookup(<<>>, FALSE, Some(FALSE)),
   Lookup(<<posts, users>>, FALSE, Some(TRUE))}

InitExpiry == InitWith({Undefined}, BOOLEAN)

NextExpiry ==
  \/ \E l \in ExpiryLookups : Get(ExpiryFingerprint, l.tables, l.isTag, l.hint)
  \/ \E tables \in ExpiryTableLists, isTag \in BOOLEAN, config \in ExpiryConfigs :
       Put(ExpiryFingerprint, Response(ops + 1), tables, isTag, config)
  \/ \E d \in ExpiryTickSteps : Tick(d)

SpecExpiry == InitExpiry /\ [][NextExpiry]_vars

----------------------------------------------------------------------------
(* SpecTtl: one tag entry put again and again under per-call and default  *)
(* configs that set every combination of TTL fields the resolution order  *)
(* distinguishes, with and without keepTtl.                                *)

TtlFingerprint == <<"k">>
TtlTables == <<users>>
TtlTickSteps == {1000}

\* px 500 -> now + 500, ex 2 -> now + 2000, pxat 2700, exat 4 -> 4000
TtlConfigs ==
  {Undefined,
   Config(Undefined, Undefined, Undefined, Undefined, FALSE),
   Config(Some(500), Some(2), Some(2700), Some(4), FALSE),
   Config(Undefined, Some(2), Some(2700), Some(4), FALSE),
   Config(Undefined, Undefined, Some(2700), Some(4), FALSE),
   Config(Undefined, Undefined, Undefined, Some(4), FALSE),
   Config(Undefined, Undefined, Undefined, Undefined, TRUE),
   Config(Some(500), Undefined, Undefined, Undefined, TRUE),
   Config(Undefined, Some(2), Undefined, Undefined, TRUE)}

TtlDefaults ==
  {Undefined,
   Config(Undefined, Undefined, Undefined, Undefined, FALSE),
   Config(Some(1500), Undefined, Undefined, Some(4), FALSE)}

InitTtl == InitWith(TtlDefaults, BOOLEAN)

NextTtl ==
  \/ Get(TtlFingerprint, TtlTables, TRUE, Undefined)
  \/ \E config \in TtlConfigs : Put(TtlFingerprint, Response(ops + 1), TtlTables, TRUE, config)
  \/ \E d \in TtlTickSteps : Tick(d)

SpecTtl == InitTtl /\ [][NextTtl]_vars

----------------------------------------------------------------------------
(* SpecDoa: puts whose expiry is already due, over entries that are       *)
(* stored, expired or absent, and over a tag whose entries sit under two  *)
(* table sets.                                                             *)

DoaFingerprint == <<"k">>

\* [tables, isTag] of the entries put
DoaShapes ==
  {[tables |-> <<>>, isTag |-> TRUE],
   [tables |-> <<users, posts>>, isTag |-> TRUE],
   [tables |-> <<users, posts>>, isTag |-> FALSE]}

\* no config: now + 1000; px 0: now; ex -1: now - 1000
DoaConfigs ==
  {Undefined,
   Config(Some(0), Undefined, Undefined, Undefined, FALSE),
   Config(Undefined, Some(-1), Undefined, Undefined, FALSE)}

DoaLookups ==
  {Lookup(<<>>, TRUE, Undefined),
   Lookup(<<posts, users>>, FALSE, Some(TRUE))}

DoaTickSteps == {1000}

InitDoa == InitWith({Undefined}, BOOLEAN)

NextDoa ==
  \/ \E l \in DoaLookups : Get(DoaFingerprint, l.tables, l.isTag, l.hint)
  \/ \E shape \in DoaShapes, config \in DoaConfigs :
       Put(DoaFingerprint, Response(ops + 1), shape.tables, shape.isTag, config)
  \/ \E d \in DoaTickSteps : Tick(d)

SpecDoa == InitDoa /\ [][NextDoa]_vars

----------------------------------------------------------------------------
(* SpecIdentity: entries of one fingerprint under table lists that differ *)
(* in members, order and repetition, of both kinds, looked up with every  *)
(* table list and hint.                                                    *)

IdentityFingerprint == <<"k">>

IdentityPutLists == {<<>>, <<posts>>, <<users, posts>>, <<users, users, posts>>}

IdentityGetLists == {<<>>, <<posts>>, <<users, posts>>, <<posts, users>>}

InitIdentity == InitWith({Undefined}, {FALSE})

NextIdentity ==
  \/ \E tables \in IdentityGetLists, hint \in Hints :
       Get(IdentityFingerprint, tables, FALSE, hint)
  \/ Get(IdentityFingerprint, <<>>, TRUE, Undefined)
  \/ \E tables \in IdentityPutLists, isTag \in BOOLEAN :
       Put(IdentityFingerprint, Response(ops + 1), tables, isTag, Undefined)

SpecIdentity == InitIdentity /\ [][NextIdentity]_vars

----------------------------------------------------------------------------
(* SpecDedupe: onMutate with tags and tables that repeat, over tag        *)
(* entries with and without tables, its backend calls recorded; no call   *)
(* fails.                                                                  *)

DedupeFingerprint == <<"k">>

DedupeShapes ==
  {[tables |-> <<>>, isTag |-> TRUE],
   [tables |-> <<users, posts>>, isTag |-> TRUE],
   [tables |-> <<users, posts>>, isTag |-> FALSE]}

DedupeMutations ==
  {Mutation(Many(<<<<"k">>, <<"k">>>>), Undefined),
   Mutation(Undefined, Many(<<TableItem(FALSE, users), TableItem(TRUE, users)>>)),
   Mutation(One(<<"k">>), Many(<<TableItem(FALSE, users), TableItem(TRUE, posts)>>))}

InitDedupe == InitWith({Undefined}, {FALSE})

NextDedupe ==
  \/ \E shape \in DedupeShapes :
       Put(DedupeFingerprint, Response(ops + 1), shape.tables, shape.isTag, Undefined)
  \/ \E params \in DedupeMutations : OnMutateF(params, NoFault)

SpecDedupe == InitDedupe /\ [][NextDedupe]_vars

----------------------------------------------------------------------------
(* SpecInterleave: one onMutate at a time, its backend calls reaching the  *)
(* backend one by one in every order its chains allow, over tag and query *)
(* entries stored while nothing is in flight.                              *)

InterleaveFingerprint == <<"k">>

InterleaveShapes ==
  {[tables |-> <<>>, isTag |-> TRUE],
   [tables |-> <<users, posts>>, isTag |-> TRUE],
   [tables |-> <<users>>, isTag |-> FALSE]}

InterleaveMutations ==
  {Mutation(One(<<"k">>), Many(<<TableItem(FALSE, users)>>)),
   Mutation(Many(<<<<"k">>, <<"k">>>>), Undefined),
   Mutation(Undefined, Many(<<TableItem(FALSE, users), TableItem(TRUE, posts)>>))}

InitInterleave == InitWith({Undefined}, {FALSE})

NextInterleave ==
  \/ /\ inflight = <<>>
     /\ \E shape \in InterleaveShapes :
          Put(InterleaveFingerprint, Response(ops + 1), shape.tables, shape.isTag, Undefined)
  \/ /\ inflight = <<>>
     /\ \E params \in InterleaveMutations : StartOnMutate(params)
  \/ \E n \in DOMAIN inflight :
       \E c \in DOMAIN inflight[n].chains :
         \E j \in DOMAIN inflight[n].chains[c].pending : Complete(n, c, j)
  \/ \E n \in DOMAIN inflight : Settle(n)

SpecInterleave == InitInterleave /\ [][NextInterleave]_vars

----------------------------------------------------------------------------
(* SpecRace: a put and an onMutate on one of its tables in flight together, *)
(* every backend call reaching the backend on its own, with and without    *)
(* the batch method and TTL support; lookups run and the clock advances    *)
(* while nothing is in flight.                                             *)

RaceFingerprint == <<"k">>

RaceShapes == {[tables |-> <<users, posts>>, isTag |-> FALSE]}

\* the table the mutations name
RaceTable == users

RaceMutations == {Mutation(Undefined, One(TableItem(FALSE, RaceTable)))}

RaceTickSteps == {1000}

InitRace == InitDrivers({Undefined}, BOOLEAN, BOOLEAN)

NextRace ==
  \/ /\ \A n \in DOMAIN inflight : inflight[n].op # "put"
     /\ \E shape \in RaceShapes :
          StartPut(RaceFingerprint, Response(ops + 1), shape.tables, shape.isTag, Undefined)
  \/ /\ \A n \in DOMAIN inflight : inflight[n].op # "onMutate"
     /\ \E params \in RaceMutations : StartOnMutate(params)
  \/ \E n \in DOMAIN inflight :
       \E c \in DOMAIN inflight[n].chains :
         \E j \in DOMAIN inflight[n].chains[c].pending : Complete(n, c, j)
  \/ \E n \in DOMAIN inflight : Settle(n)
  \/ /\ inflight = <<>>
     /\ \E shape \in RaceShapes : Get(RaceFingerprint, shape.tables, shape.isTag, Undefined)
  \/ /\ inflight = <<>>
     /\ \E d \in RaceTickSteps : Tick(d)

SpecRace == InitRace /\ [][NextRace]_vars

----------------------------------------------------------------------------
(* SpecOverlap: puts of one fingerprint in flight together, with TTLs that *)
(* differ and with keepTtl, their writes reaching the backend one by one,  *)
(* with and without the batch method and TTL support; lookups run and the  *)
(* clock advances while nothing is in flight.                              *)

OverlapFingerprint == <<"k">>

OverlapShapes ==
  {[tables |-> <<>>, isTag |-> TRUE],
   [tables |-> <<users>>, isTag |-> FALSE]}

\* the default TTL, a longer one, and the longer one unless an entry is there
OverlapConfigs ==
  {Undefined,
   Config(Some(1500), Undefined, Undefined, Undefined, FALSE),
   Config(Some(1500), Undefined, Undefined, Undefined, TRUE)}

OverlapTickSteps == {1000}

\* how many puts run at the same time
MaxOverlap == 2

InitOverlap == InitDrivers({Undefined}, BOOLEAN, BOOLEAN)

NextOverlap ==
  \/ /\ Len(inflight) < MaxOverlap
     /\ \E shape \in OverlapShapes, config \in OverlapConfigs :
          StartPut(OverlapFingerprint, Response(ops + 1), shape.tables, shape.isTag, config)
  \/ \E n \in DOMAIN inflight :
       \E c \in DOMAIN inflight[n].chains :
         \E j \in DOMAIN inflight[n].chains[c].pending : Complete(n, c, j)
  \/ \E n \in DOMAIN inflight : Settle(n)
  \/ /\ inflight = <<>>
     /\ \E shape \in OverlapShapes : Get(OverlapFingerprint, shape.tables, shape.isTag, Undefined)
  \/ /\ inflight = <<>>
     /\ \E d \in OverlapTickSteps : Tick(d)

SpecOverlap == InitOverlap /\ [][NextOverlap]_vars

----------------------------------------------------------------------------
(* SpecLive: one tag entry put under per-call and default configs whose    *)
(* expiry lies ahead, at the instant of the put or behind it, relative and *)
(* absolute, with and without keepTtl, and looked up as the clock          *)
(* advances, on both kinds of driver.                                      *)

LiveFingerprint == <<"k">>
LiveTables == <<users>>
LiveTickSteps == {1000}

\* no config; keepTtl alone; px 0 -> now; ex -1 -> now - 1000; pxat 2000;
\* exat 3 -> 3000 kept if an entry is there
LiveConfigs ==
  {Undefined,
   Config(Undefined, Undefined, Undefined, Undefined, TRUE),
   Config(Some(0), Undefined, Undefined, Undefined, FALSE),
   Config(Undefined, Some(-1), Undefined, Undefined, FALSE),
   Config(Undefined, Undefined, Some(2000), Undefined, FALSE),
   Config(Undefined, Undefined, Undefined, Some(3), TRUE)}

\* no default config; a default of px 0; a default of pxat 2000
LiveDefaults ==
  {Undefined,
   Config(Some(0), Undefined, Undefined, Undefined, FALSE),
   Config(Undefined, Undefined, Some(2000), Undefined, FALSE)}

InitLive == InitWith(LiveDefaults, BOOLEAN)

NextLive ==
  \/ GetF(LiveFingerprint, LiveTables, TRUE, Undefined, NoFault)
  \/ \E config \in LiveConfigs :
       PutF(LiveFingerprint, Response(ops + 1), LiveTables, TRUE, config, NoFault)
  \/ \E d \in LiveTickSteps : Tick(d)

SpecLive == InitLive /\ [][NextLive]_vars

----------------------------------------------------------------------------
(* Vocabulary of the properties *)

\* no clock advance since the last operation: storage is what it left
JustAfter(op) == last.op = op /\ now = last.at

MutatedTables(params) == Range(normalizeTables(params.tables))
MutatedTags(params) == Range(normalizeTags(params.tags))

\* every table list a caller may pass over the model's table names
AllTableLists == {<<>>, <<users>>, <<posts>>, <<users, posts>>, <<posts, users>>}

PermutationsOf(list) ==
  {[i \in 1..Len(list) |-> list[f[i]]] : f \in Permutations(1..Len(list))}

\* the storage keys that make up the entry (key, tables, isTag)
EntryValueKey(key, tables, isTag) ==
  valueKey(Len(tables) > 0, isTag, encode(key),
           IF Len(tables) > 0 THEN Some(makeTablesKey(tables)) ELSE Undefined)

EntryIndexKeys(key, tables, isTag) ==
  {indexKey(tables[i], makeTablesKey(tables), isTag, encode(key)) : i \in 1..Len(tables)}

EntryKeys(key, tables, isTag) ==
  {EntryValueKey(key, tables, isTag)} \cup EntryIndexKeys(key, tables, isTag)
    \cup (IF isTag THEN {tagMapKey(encode(key))} ELSE {})

\* key k holds the same record in both storages, or is absent from both
SameAt(k, st1, st2) ==
  /\ (k \in DOMAIN st1) = (k \in DOMAIN st2)
  /\ k \in DOMAIN st1 => st1[k] = st2[k]

\* the entry (key, tables, isTag) is stored in st and a get at time t returns its value
ServedValue(st, t, key, tables, isTag) ==
  LET vk == EntryValueKey(key, tables, isTag)
  IN /\ vk \in DOMAIN st
     /\ get(st, t, key, tables, isTag, Undefined).result = Some(st[vk].value.value)

Persisted(op) == op.op = "put" /\ IsDefined(op.expiresAt) /\ Val(op.expiresAt) > op.at

\* the records in st of tag g: its tag-map record and every value key and
\* index record of kind tag whose fingerprint is g
TagRecords(st, g) ==
  {k \in DOMAIN st :
     LET parts == Split(k, ":")
     IN /\ parts[Len(parts)] = encode(g)
        /\ \/ parts[1] = <<TAG_MAP_PREFIX>>
           \/ parts[Len(parts) - 1] = <<"t">>}

TagHidden(st, t, g) ==
  \A tables \in AllTableLists, hint \in Hints :
    get(st, t, g, tables, TRUE, hint).result = Undefined

----------------------------------------------------------------------------
----------------------------------------------------------------------------
(* C3 Table invalidation leaves unrelated entries untouched: onMutate with *)
(* tables S only changes no value key, index record or tag-map record of  *)
(* an entry whose table set is disjoint from S or that was stored with an *)
(* empty table list, and a get that was serving such an entry serves the  *)
(* same value afterwards.                                                  *)
C3_UnrelatedEntriesUntouched ==
  (JustAfter("onMutate") /\ ~IsDefined(last.params.tags))
  => \A key \in Fingerprints, isTag \in BOOLEAN, tables \in AllTableLists :
       Range(tables) \cap MutatedTables(last.params) = {}
       => /\ \A k \in EntryKeys(key, tables, isTag) : SameAt(k, before, storage)
          /\ ServedValue(before, last.at, key, tables, isTag)
             => get(storage, now, key, tables, isTag, Undefined).result
                  = get(before, last.at, key, tables, isTag, Undefined).result

\* users was mutated and removed an entry while an entry on posts alone is still served
C3_Witness ==
  /\ JustAfter("onMutate")
  /\ ~IsDefined(last.params.tags)
  /\ MutatedTables(last.params) = {users}
  /\ last.removed > 0
  /\ \E key \in Fingerprints, isTag \in BOOLEAN :
       /\ ServedValue(before, last.at, key, <<posts>>, isTag)
       /\ ServedValue(storage, now, key, <<posts>>, isTag)

----------------------------------------------------------------------------
(* C5 Tag invalidation hides the tag: from the onMutate that names tag g  *)
(* until the next put for tag g, every get(g, anyTables, isTag = true,    *)
(* anyHint) returns absent, whatever puts for g came before.              *)
C5_TagInvalidationHidesTag ==
  \A g \in hiddenTags : TagHidden(storage, now, g)

\* the tag was put under two table sets and then invalidated: a value key of
\* it is still stored, and the tag is hidden
C5_Witness ==
  /\ last.op = "onMutate"
  /\ \E g \in MutatedTags(last.params) :
       /\ \E tables \in AllTableLists : EntryValueKey(g, tables, TRUE) \in DOMAIN storage
       /\ TagHidden(storage, now, g)

----------------------------------------------------------------------------
(* C6 Tag invalidation cleans every record of the tag: after onMutate     *)
(* names tag g, the storage holds no value key, no index record and no    *)
(* tag-map record of tag g, for every history of puts of g.               *)
C6_TagInvalidationCleansEveryRecord ==
  last.op = "onMutate"
  => \A g \in MutatedTags(last.params) : TagRecords(storage, g) = {}

----------------------------------------------------------------------------
(* C10 Full de-indexing on table invalidation: when onMutate on a table   *)
(* removes an entry with table set T, no index record of that entry is    *)
(* left under any table of T.                                              *)
C10_FullDeindexing ==
  (last.op = "onMutate" /\ ~IsDefined(last.params.tags))
  => \A key \in Fingerprints, isTag \in BOOLEAN, tables \in AllTableLists :
       (/\ Range(tables) \cap MutatedTables(last.params) # {}
        /\ EntryValueKey(key, tables, isTag) \in DOMAIN before
        /\ EntryValueKey(key, tables, isTag) \notin DOMAIN storage)
       => EntryIndexKeys(key, tables, isTag) \cap DOMAIN storage = {}

----------------------------------------------------------------------------
(* Vocabulary of the expiry properties *)

\* the entry shape (op.key, tables, op.isTag) is the one the lookup op reads
\* from storage st: a tag lookup follows the tag map, a query lookup
\* derives the value key from its own tables and hint
Addresses(op, st, tables) ==
  IF op.isTag
    THEN getItem(st, tagMapKey(encode(op.key)))
           = Some(IF Len(tables) > 0 THEN makeTablesKey(tables) ELSE NAI)
    ELSE /\ EntryValueKey(op.key, op.tables, FALSE) = EntryValueKey(op.key, tables, FALSE)
         /\ op.hint \in {Undefined, Some(Len(op.tables) > 0)}

\* the lookup that matches the put recorded in last
LookupOfLast(st, t) ==
  get(st, t, last.key, last.tables, last.isTag, Some(Len(last.tables) > 0))

LastValueKey == EntryValueKey(last.key, last.tables, last.isTag)

HasTtlField(config) ==
  /\ IsDefined(config)
  /\ \/ IsDefined(Val(config).px)
     \/ IsDefined(Val(config).ex)
     \/ IsDefined(Val(config).pxat)
     \/ IsDefined(Val(config).exat)

\* the expiry the resolution rule prescribes when keepTtl does not apply
ExpectedExpiry(t, config, dflt) ==
  LET chosen == IF HasTtlField(config) THEN config
                ELSE IF HasTtlField(dflt) THEN dflt
                ELSE Undefined
  IN IF ~IsDefined(chosen) THEN t + 1000
     ELSE IF IsDefined(Val(chosen).px) THEN t + Val(Val(chosen).px)
     ELSE IF IsDefined(Val(chosen).ex) THEN t + Val(Val(chosen).ex) * 1000
     ELSE IF IsDefined(Val(chosen).pxat) THEN Val(Val(chosen).pxat)
     ELSE Val(Val(chosen).exat) * 1000

KeepTtlPut == last.op = "put" /\ IsDefined(last.config) /\ Val(last.config).keepTtl

\* the put found an entry under its storage key that had not expired yet
KeepTtlApplies ==
  /\ KeepTtlPut
  /\ LastValueKey \in DOMAIN before
  /\ Val(before[LastValueKey].value.expiresAt) > last.at

----------------------------------------------------------------------------
(* C1 Store then lookup hits: after put(fp, v, T, isTag, cfg) resolved an *)
(* expiry in the future, and as long as no later put wrote or dropped     *)
(* that entry, no later put of the same tag took the tag over and no      *)
(* onMutate named its tag or one of its tables, the lookup                *)
(* get(fp, T, isTag, autoInvalidate = (T non-empty)) made before the      *)
(* expiry returns exactly v; for query and tag entries, for empty and     *)
(* non-empty T, on either kind of driver.                                  *)
C1_StoreThenLookupHits ==
  \A k \in DOMAIN putLog :
    now < putLog[k].expiresAt
    => get(storage, now, putLog[k].key, putLog[k].tables, putLog[k].isTag,
           Some(Len(putLog[k].tables) > 0)).result = Some(putLog[k].response)

\* a tag entry over two tables with a TTL of 1500 ms, on a driver that
\* honors the ttl option, after another put, a lookup and half a second
C1_Witness ==
  /\ honorsTtl
  /\ ops = 3
  /\ last.op = "get"
  /\ \E k \in DOMAIN putLog :
       /\ putLog[k].seq = 1
       /\ putLog[k].isTag
       /\ Len(putLog[k].tables) = 2
       /\ putLog[k].expiresAt - now = 1000
       /\ get(storage, now, putLog[k].key, putLog[k].tables, TRUE, Some(TRUE)).result
            = Some(putLog[k].response)

----------------------------------------------------------------------------
(* C4 Expiry on read: a get that reads an entry stored with expiry E      *)
(* returns the stored value when now < E and absent when now >= E, and    *)
(* after the expired get the storage holds no value key, no index record  *)
(* and (for a tag entry) no tag-map record of that entry; the same holds  *)
(* of the lookup of every entry put and not overwritten, taken over or    *)
(* invalidated since, whether or not the driver honors the ttl option.    *)
C4_ExpiryOnRead ==
  /\ last.op = "get"
     => \A tables \in AllTableLists :
          LET vk == EntryValueKey(last.key, tables, last.isTag)
          IN (Addresses(last, before, tables) /\ vk \in DOMAIN before)
             => IF last.at < Val(before[vk].value.expiresAt)
                  THEN last.result = Some(before[vk].value.value)
                  ELSE /\ last.result = Undefined
                       /\ EntryKeys(last.key, tables, last.isTag) \cap DOMAIN storage = {}
  /\ \A k \in DOMAIN putLog :
       LET p == putLog[k]
           lookup == get(storage, now, p.key, p.tables, p.isTag, Some(Len(p.tables) > 0))
       IN IF now < p.expiresAt
            THEN lookup.result = Some(p.response)
            ELSE /\ lookup.result = Undefined
                 /\ EntryKeys(p.key, p.tables, p.isTag) \cap DOMAIN lookup.st = {}

\* on a driver that ignores the ttl option, a tag lookup at the very expiry
\* of a stored entry over two tables found it with its records and removed them
C4_Witness ==
  /\ JustAfter("get")
  /\ ~honorsTtl
  /\ last.isTag
  /\ Addresses(last, before, <<users, posts>>)
  /\ EntryKeys(last.key, <<users, posts>>, TRUE) \subseteq DOMAIN before
  /\ Val(before[EntryValueKey(last.key, <<users, posts>>, TRUE)].value.expiresAt) = last.at
  /\ last.result = Undefined
  /\ EntryKeys(last.key, <<users, posts>>, TRUE) \cap DOMAIN storage = {}

----------------------------------------------------------------------------
(* C7 keepTtl preservation: a put with keepTtl = true that finds under its *)
(* storage key an entry with expiresAt > now stores the new value with    *)
(* exactly that expiresAt, whatever TTL fields the call and the default   *)
(* config carry, and the entry is served until that expiry and not after; *)
(* when there is no such entry or it has expired, the expiry is the one a *)
(* put without keepTtl resolves.                                           *)
C7_KeepTtlPreservation ==
  KeepTtlPut
  => IF KeepTtlApplies
       THEN LET previous == Val(before[LastValueKey].value.expiresAt)
            IN /\ last.expiresAt = Some(previous)
               /\ JustAfter("put")
                  => /\ LastValueKey \in DOMAIN storage
                     /\ storage[LastValueKey].value.value = last.response
                     /\ storage[LastValueKey].value.expiresAt = Some(previous)
               /\ now < previous => LookupOfLast(storage, now).result = Some(last.response)
               /\ now >= previous => LookupOfLast(storage, now).result = Undefined
       ELSE last.expiresAt = Some(ExpectedExpiry(last.at, last.config, defaultConfig))

\* keepTtl with px 500 kept an expiry later than now + 500, and the new
\* value is served after now + 500
C7_Witness ==
  /\ KeepTtlApplies
  /\ Val(last.config).px = Some(500)
  /\ Val(before[LastValueKey].value.expiresAt) > last.at + 500
  /\ before[LastValueKey].value.value # last.response
  /\ now >= last.at + 500
  /\ LookupOfLast(storage, now).result = Some(last.response)

----------------------------------------------------------------------------
(* C8 TTL resolution: when keepTtl does not apply, put takes the TTL from *)
(* the per-call config if it defines one of px/ex/pxat/exat, otherwise    *)
(* from the default config if that defines one, otherwise now + 1000 ms;  *)
(* in the chosen config the first field present in the order px, ex,      *)
(* pxat, exat alone determines expiresAt.  A per-call config with no TTL  *)
(* field never overrides the default config's TTL.                         *)
C8_TtlResolution ==
  (last.op = "put" /\ ~KeepTtlApplies)
  => LET expected == ExpectedExpiry(last.at, last.config, defaultConfig)
     IN /\ last.expiresAt = Some(expected)
        /\ (JustAfter("put") /\ expected > last.at)
           => /\ LastValueKey \in DOMAIN storage
              /\ storage[LastValueKey].value.expiresAt = Some(expected)

\* a per-call config with ex, pxat and exat but no px, under a default
\* config with px: the entry expires ex seconds after the put
C8_Witness ==
  /\ JustAfter("put")
  /\ HasTtlField(defaultConfig)
  /\ IsDefined(last.config)
  /\ ~Val(last.config).keepTtl
  /\ ~IsDefined(Val(last.config).px)
  /\ IsDefined(Val(last.config).ex)
  /\ IsDefined(Val(last.config).pxat)
  /\ storage[LastValueKey].value.expiresAt = Some(last.at + 2000)

----------------------------------------------------------------------------
----------------------------------------------------------------------------
(* C11 No dead-on-arrival entry: a put whose resolved expiresAt is <= now *)
(* writes no value key, no index record and no tag-map record, removes    *)
(* the value key and the index records stored under its storage key, and  *)
(* a lookup that reads that storage key afterwards returns absent.         *)
DeadOnArrival == last.op = "put" /\ Val(last.expiresAt) <= last.at

C11_NoDeadOnArrivalEntry ==
  DeadOnArrival
  => /\ JustAfter("put")
        => /\ LastValueKey \notin DOMAIN storage
           /\ EntryIndexKeys(last.key, last.tables, last.isTag) \cap DOMAIN storage = {}
           /\ \A k \in DOMAIN storage : k \in DOMAIN before /\ storage[k] = before[k]
           /\ DOMAIN before \ DOMAIN storage
                \subseteq {LastValueKey} \cup EntryIndexKeys(last.key, last.tables, last.isTag)
     /\ ~last.isTag => LookupOfLast(storage, now).result = Undefined
     /\ (last.isTag /\ Addresses(last, storage, last.tables))
        => LookupOfLast(storage, now).result = Undefined

\* a tag entry over two tables was stored with its index and tag-map
\* records, and a put with px 0 removed its value key and index records
C11_Witness ==
  /\ JustAfter("put")
  /\ DeadOnArrival
  /\ last.isTag
  /\ Val(last.config).px = Some(0)
  /\ EntryKeys(last.key, <<users, posts>>, TRUE) \subseteq DOMAIN before
  /\ last.tables = <<users, posts>>
  /\ DOMAIN before \ DOMAIN storage
       = {LastValueKey} \cup EntryIndexKeys(last.key, last.tables, TRUE)
  /\ LookupOfLast(storage, now).result = Undefined

----------------------------------------------------------------------------
(* C12 Dead-on-arrival cleanup equals expired-read cleanup: from a state  *)
(* holding an expired entry under a key, the storage keys removed by a    *)
(* put to that key with an already-past expiry are the storage keys       *)
(* removed by a get that finds that entry expired, for query entries and  *)
(* for tag entries (value key, index records and tag-map record).          *)
PastExpiry == Config(Some(0), Undefined, Undefined, Undefined, FALSE)

\* the entry of this shape is stored, expired, and the one a lookup reads
HoldsExpired(st, t, key, shape) ==
  LET entry == getItem(st, EntryValueKey(key, shape.tables, shape.isTag))
  IN /\ IsDefined(entry)
     /\ isExpired(Val(entry), t)
     /\ Addresses([key |-> key, tables |-> shape.tables, isTag |-> shape.isTag,
                   hint |-> Undefined], st, shape.tables)

RemovedByPut(st, t, key, shape) ==
  DOMAIN st \ DOMAIN put(st, t, key, Response(0), shape.tables, shape.isTag,
                         PastExpiry, defaultConfig, honorsTtl)

RemovedByGet(st, t, key, shape) ==
  DOMAIN st \ DOMAIN get(st, t, key, shape.tables, shape.isTag, Undefined).st

C12_DoaCleanupEqualsExpiredReadCleanup ==
  \A shape \in DoaShapes :
    HoldsExpired(storage, now, DoaFingerprint, shape)
    => RemovedByPut(storage, now, DoaFingerprint, shape)
         = RemovedByGet(storage, now, DoaFingerprint, shape)

----------------------------------------------------------------------------
(* C13 Idempotent invalidation: for every storage state and every lists   *)
(* of tags and tables, running onMutate twice in a row leaves the same    *)
(* storage state as running it once; invalidating a tag or table that     *)
(* has no records is a no-op.                                              *)
OnMutateOnce(st, params, readFirst) == onMutate(st, params, readFirst)

OnMutateTwice(st, params, readFirst, readFirstAgain) ==
  onMutate(onMutate(st, params, readFirst), params, readFirstAgain)

C13_IdempotentInvalidation ==
  \A params \in Mutations : \A readFirst, readFirstAgain \in BOOLEAN :
    OnMutateTwice(storage, params, readFirst, readFirstAgain)
      = OnMutateOnce(storage, params, readFirst)

----------------------------------------------------------------------------
(* C14 Backend failures are never hidden: if a backend call issued by     *)
(* get, put or onMutate fails, the operation fails to its caller: it      *)
(* reports no success, no value and no miss, and the cache does not issue *)
(* the failed call again.                                                  *)
FailedCall == ChainCalls(last.calls, last.fault.chain)[last.fault.call]

\* the calls the failing chain issued after the failed one
CallsAfterFailure ==
  SubSeq(ChainCalls(last.calls, last.fault.chain), last.fault.call + 1,
         Len(ChainCalls(last.calls, last.fault.chain)))

C14_BackendFailuresNeverHidden ==
  (last.op \in {"get", "put", "onMutate"} /\ last.fault # NoFault)
  => /\ last.fault.call <= Len(ChainCalls(last.calls, last.fault.chain))
     /\ last.outcome = "rejected"
     /\ last.result = Undefined
     /\ \A i \in 1..Len(CallsAfterFailure) :
          ~(CallsAfterFailure[i].fn = FailedCall.fn /\ CallsAfterFailure[i].key = FailedCall.key)

\* onMutate of a stored tag over two tables deleted the value key, one of
\* the two index deletes failed, and onMutate rejected with the tag map
\* still stored
C14_Witness ==
  /\ last.op = "onMutate"
  /\ last.fault # NoFault
  /\ last.outcome = "rejected"
  /\ FailedCall.fn = "removeItem"
  /\ FailedCall.key = indexKey(users, makeTablesKey(<<users, posts>>), TRUE, encode(<<"k">>))
  /\ FailedCall.key \in DOMAIN storage
  /\ EntryValueKey(<<"k">>, <<users, posts>>, TRUE) \in DOMAIN before \ DOMAIN storage
  /\ tagMapKey(encode(<<"k">>)) \in DOMAIN storage

----------------------------------------------------------------------------
(* C15 Backend TTL hint: a put that persists an entry passes, with the    *)
(* value key, the index records and the tag-map record, a ttl of          *)
(* ceil((expiresAt - now) / 1000) seconds, at least 1, so that            *)
(* ttl * 1000 >= expiresAt - now; a backend that honors it never evicts   *)
(* an entry before the expiresAt of its payload, and lookups return the   *)
(* same on a backend that honors the ttl and on one that ignores it.      *)
IsCeilSeconds(n, ms) ==
  n >= 1 /\ n * MS_PER_SECOND >= ms /\ (n - 1) * MS_PER_SECOND < ms

\* the backend writes of the put recorded in last
WritesOfLast ==
  SelectSeq(Flatten(putStages(before, last.at, last.key, last.response, last.tables,
                              last.isTag, last.config, defaultConfig, hasSetItems)),
            LAMBDA c : c.fn \in {"setItem", "setItems"})

IsValueKey(k) ==
  ~StartsWith(k, <<INDEX_PREFIX, ":">>) /\ ~StartsWith(k, <<TAG_MAP_PREFIX, ":">>)

C15_BackendTtlHint ==
  /\ (JustAfter("put") /\ Persisted(last))
     => /\ Len(WritesOfLast) > 0
        /\ \A i \in 1..Len(WritesOfLast) :
             /\ IsDefined(ttlOptions(WritesOfLast[i].ttl))
             /\ IsCeilSeconds(Val(ttlOptions(WritesOfLast[i].ttl)),
                              Val(last.expiresAt) - last.at)
        /\ UNION {{WritesOfLast[i].items[j].key : j \in 1..Len(WritesOfLast[i].items)} :
                    i \in 1..Len(WritesOfLast)}
             = EntryKeys(last.key, last.tables, last.isTag)
        /\ \A k \in EntryKeys(last.key, last.tables, last.isTag) :
             /\ k \in DOMAIN twin
             /\ IsDefined(twin[k].deadline)
             /\ IsCeilSeconds((Val(twin[k].deadline) - last.at) \div MS_PER_SECOND,
                              Val(twin[LastValueKey].value.expiresAt) - last.at)
             /\ Val(twin[k].deadline) >= Val(twin[LastValueKey].value.expiresAt)
  /\ \A k \in DOMAIN twin :
       IsValueKey(k) => Val(twin[k].deadline) >= Val(twin[k].value.expiresAt)
  /\ \A l \in TwinLookups :
       get(storage, now, TwinFingerprint, l.tables, l.isTag, l.hint).result
         = get(twin, now, TwinFingerprint, l.tables, l.isTag, l.hint).result

----------------------------------------------------------------------------
(* C16 Index invariant: after every operation of a sequential history of  *)
(* put, get and onMutate, every value key stored with automatic           *)
(* invalidation has its index record under each table of its dependent-   *)
(* table list, keyed by the entry's table-set digest, kind and            *)
(* fingerprint; and a put with an empty table list creates no index       *)
(* record.                                                                 *)
AutoValueKeys(st) == {k \in DOMAIN st : Split(k, ":")[1] = <<VALUE_AUTO_PREFIX>>}

IndexRecords(st) == {k \in DOMAIN st : Split(k, ":")[1] = <<INDEX_PREFIX>>}

\* the index keys the value key k and its payload call for
IndexKeysFor(st, k) ==
  LET parts == Split(k, ":")
      tables == Val(st[k].value.tables)
  IN {indexKey(tables[i], parts[2], parts[3] = <<"t">>, parts[4]) : i \in 1..Len(tables)}

Indexed(st) ==
  \A k \in AutoValueKeys(st) :
    /\ IsDefined(st[k].value.tables)
    /\ Len(Val(st[k].value.tables)) > 0
    /\ Split(k, ":")[2] = makeTablesKey(Val(st[k].value.tables))
    /\ IndexKeysFor(st, k) \subseteq IndexRecords(st)

----------------------------------------------------------------------------
(* C17 Entry identity: the storage key is an injective function of        *)
(* (automatic invalidation, kind, table-set digest, fingerprint), so puts *)
(* with the same fingerprint and a different table set, kind or           *)
(* auto-invalidation state never overwrite each other; a non-tag          *)
(* get(fp, T', false, hint) returns the value put with (fp, T, false)     *)
(* only when the effective auto flag of the get (hint if given, else T'   *)
(* non-empty) equals (T non-empty) and, that flag being on, the digest of *)
(* T' equals the digest of T; it misses otherwise.                         *)
EffectiveAuto(tables, hint) == IF IsDefined(hint) THEN Val(hint) ELSE Len(tables) > 0

IdentityLists == IdentityPutLists \cup IdentityGetLists

\* the value a get returns is the one stored for the query entry (key, tables)
ReturnsEntry(result, st, key, tables) ==
  /\ EntryValueKey(key, tables, FALSE) \in DOMAIN st
  /\ result = Some(st[EntryValueKey(key, tables, FALSE)].value.value)

SameSlot(getTables, hint, putTables) ==
  /\ EffectiveAuto(getTables, hint) = (Len(putTables) > 0)
  /\ EffectiveAuto(getTables, hint) => makeTablesKey(getTables) = makeTablesKey(putTables)

C17_EntryIdentity ==
  /\ JustAfter("put")
     => /\ \A tables \in IdentityLists : \A isTag \in BOOLEAN : \A fp \in Fingerprints :
             (EntryValueKey(fp, tables, isTag) = LastValueKey)
               <=> /\ makeTablesKey(tables) = makeTablesKey(last.tables)
                   /\ isTag = last.isTag
                   /\ encode(fp) = encode(last.key)
        /\ \A tables \in IdentityLists : \A isTag \in BOOLEAN :
             (makeTablesKey(tables) # makeTablesKey(last.tables) \/ isTag # last.isTag)
             => SameAt(EntryValueKey(last.key, tables, isTag), storage, before)
  /\ \A getTables \in IdentityLists : \A hint \in Hints :
       LET result == get(storage, now, IdentityFingerprint, getTables, FALSE, hint).result
       IN /\ \A putTables \in IdentityLists :
               ReturnsEntry(result, storage, IdentityFingerprint, putTables)
                 <=> /\ EntryValueKey(IdentityFingerprint, putTables, FALSE) \in DOMAIN storage
                     /\ SameSlot(getTables, hint, putTables)
          /\ IsDefined(result)
             => \E putTables \in IdentityLists :
                  ReturnsEntry(result, storage, IdentityFingerprint, putTables)

\* the entry put with no tables is stored next to the entry put over
\* {users, posts}; a get with tables [posts] and the hint off returned the
\* former, and a get with [posts, users] and no hint would return the latter
C17_Witness ==
  /\ JustAfter("get")
  /\ ~last.isTag
  /\ last.tables = <<posts>>
  /\ last.hint = Some(FALSE)
  /\ ReturnsEntry(last.result, storage, last.key, <<>>)
  /\ EntryValueKey(last.key, <<users, posts>>, FALSE) \in DOMAIN storage
  /\ ReturnsEntry(get(storage, now, last.key, <<posts, users>>, FALSE, Undefined).result,
                  storage, last.key, <<users, posts>>)

\* the claim as stated: the digests are equal whatever the auto flag
C17_EntryIdentityAsStated ==
  \A getTables \in IdentityLists : \A hint \in Hints : \A putTables \in IdentityLists :
    ReturnsEntry(get(storage, now, IdentityFingerprint, getTables, FALSE, hint).result,
                 storage, IdentityFingerprint, putTables)
    => /\ makeTablesKey(getTables) = makeTablesKey(putTables)
       /\ EffectiveAuto(getTables, hint) = (Len(putTables) > 0)

----------------------------------------------------------------------------
(* C18 Duplicate independence: the table-set digest used by put and get   *)
(* depends only on the set of table names, so two table lists that differ *)
(* only in repeated elements address the same entry: put with one and get *)
(* with the other returns the stored value.                                *)
C18_DuplicateIndependence ==
  /\ last.op \in {"put", "get"}
     => \A tables \in IdentityLists :
          Range(tables) = Range(last.tables)
          => makeTablesKey(tables) = makeTablesKey(last.tables)
  /\ \A putTables \in IdentityPutLists : \A getTables \in IdentityGetLists :
       (/\ Range(putTables) = Range(getTables)
        /\ EntryValueKey(IdentityFingerprint, putTables, FALSE) \in DOMAIN storage)
       => ReturnsEntry(get(storage, now, IdentityFingerprint, getTables, FALSE,
                           Undefined).result,
                       storage, IdentityFingerprint, putTables)

----------------------------------------------------------------------------
(* C19 Tag lookup ignores caller tables and hint: for any storage state   *)
(* and tag g, get(g, T1, true, h1) and get(g, T2, true, h2) return the    *)
(* same result and have the same storage effects for all table lists and  *)
(* hints; the storage key and the auto-invalidation flag come from the    *)
(* tag-map record alone (absent record: miss; sentinel: the non-auto      *)
(* slot; otherwise the recorded digest).                                   *)
\* the value key a tag lookup reads, by the tag-map record alone
TagSlot(st, g) ==
  LET mapValue == getItem(st, tagMapKey(encode(g)))
  IN IF ~IsDefined(mapValue) THEN Undefined
     ELSE IF Val(mapValue) = NAI THEN Some(valueKey(FALSE, TRUE, encode(g), Undefined))
     ELSE Some(valueKey(TRUE, TRUE, encode(g), mapValue))

\* what a tag lookup returns and leaves, by the tag-map record alone
TagLookup(st, t, g) ==
  IF ~IsDefined(TagSlot(st, g)) \/ Val(TagSlot(st, g)) \notin DOMAIN st
    THEN [result |-> Undefined, st |-> st]
    ELSE IF isExpired(st[Val(TagSlot(st, g))].value, t)
      THEN [result |-> Undefined,
            st |-> removeItems(st, {Val(TagSlot(st, g)), tagMapKey(encode(g))}
                                     \cup {indexKey(table, Val(getItem(st, tagMapKey(encode(g)))),
                                                    TRUE, encode(g)) :
                                             table \in Range(decodeTablesKey(
                                               IF Val(getItem(st, tagMapKey(encode(g)))) = NAI
                                                 THEN Undefined
                                                 ELSE getItem(st, tagMapKey(encode(g)))))})]
      ELSE [result |-> Some(st[Val(TagSlot(st, g))].value.value), st |-> st]

C19_TagLookupIgnoresTablesAndHint ==
  /\ \A tables \in AllTableLists : \A hint \in Hints :
       /\ get(storage, now, DoaFingerprint, tables, TRUE, hint)
            = TagLookup(storage, now, DoaFingerprint)
       /\ Describe(Flatten(getStages(storage, now, DoaFingerprint, tables, TRUE, hint)),
                   By("get", 1))
            = Describe(Flatten(getStages(storage, now, DoaFingerprint, <<>>, TRUE,
                                         Undefined)), By("get", 1))
  /\ (JustAfter("get") /\ last.isTag)
     => \A tables \in AllTableLists : \A hint \in Hints :
          get(before, last.at, last.key, tables, TRUE, hint)
            = [result |-> last.result, st |-> storage]

\* a tag lookup found the tag map pointing at the entry over {users, posts},
\* found the entry expired and removed it with its index and tag-map records
C19_Witness ==
  /\ JustAfter("get")
  /\ last.isTag
  /\ getItem(before, tagMapKey(encode(last.key))) = Some(makeTablesKey(<<users, posts>>))
  /\ last.result = Undefined
  /\ DOMAIN before \ DOMAIN storage = EntryKeys(last.key, <<users, posts>>, TRUE)

----------------------------------------------------------------------------
(* C20 onMutate deduplicates both of its inputs: within one onMutate call *)
(* each distinct tag is invalidated at most once and each distinct table  *)
(* prefix is enumerated at most once, even when the tag list or the table *)
(* list repeats elements, and each value key and index record receives at *)
(* most one delete from table invalidation.                                *)
\* how many calls of the trace name function fn and key, issued by a
\* function named by
CallCount(calls, by, fn, key) ==
  Len(SelectSeq(calls, LAMBDA c : c.by.fn = by /\ c.fn = fn /\ c.key = key))

KeysCalled(calls, by, fn) ==
  {calls[i].key : i \in {j \in 1..Len(calls) : calls[j].by.fn = by /\ calls[j].fn = fn}}

C20_OnMutateDeduplicates ==
  (last.op = "onMutate" /\ last.fault = NoFault)
  => /\ \A key \in KeysCalled(last.calls, "invalidateTag", "getItem") :
          CallCount(last.calls, "invalidateTag", "getItem", key) <= 1
     /\ \A key \in KeysCalled(last.calls, "invalidateTables", "getKeys") :
          CallCount(last.calls, "invalidateTables", "getKeys", key) <= 1
     /\ \A key \in KeysCalled(last.calls, "invalidateTables", "removeItem") :
          CallCount(last.calls, "invalidateTables", "removeItem", key) <= 1

----------------------------------------------------------------------------
(* C21 Disjoint key spaces inside onMutate: in every execution of          *)
(* onMutate({tags, tables}) the storage keys read or deleted by tag        *)
(* invalidation and those read or deleted by table invalidation are        *)
(* disjoint, also when an invalidated tag's entry depends on one of the    *)
(* mutated tables.                                                         *)

\* the keys the trace shows a function of onMutate to have read or deleted;
\* every key getKeys enumerates is deleted by the same function afterwards
Touched(calls, by) == KeysCalled(calls, by, "getItem") \cup KeysCalled(calls, by, "removeItem")

TouchedByBoth(calls) == Touched(calls, "invalidateTag") \cap Touched(calls, "invalidateTables")

C21_DisjointKeySpaces ==
  last.op = "onMutate" => TouchedByBoth(last.calls) = {}

\* the value key and the index records that the tag map of st records for
\* tag g
TagEntryKeys(st, g) ==
  LET m == getItem(st, tagMapKey(encode(g)))
  IN IF FalsyString(m) \/ Val(m) = NAI THEN {}
     ELSE {valueKey(TRUE, TRUE, encode(g), m)}
          \cup {indexKey(t, Val(m), TRUE, encode(g)) : t \in Range(decodeTablesKey(m))}

TagEntryTables(st, g) ==
  LET m == getItem(st, tagMapKey(encode(g)))
  IN IF FalsyString(m) \/ Val(m) = NAI THEN {} ELSE Range(decodeTablesKey(m))

\* C21 as amended: the keys touched by both invalidations are value keys and
\* index records of the entries that the tag map records for the named
\* tags, both only delete them, and there is none when no such entry
\* depends on a mutated table.
C21_SharedKeysAreTagEntryKeys ==
  last.op = "onMutate"
  => LET tags == Range(normalizeTags(last.params.tags))
         tables == Range(normalizeTables(last.params.tables))
         shared == TouchedByBoth(last.calls)
     IN /\ shared \subseteq UNION {TagEntryKeys(before, g) : g \in tags}
        /\ shared \cap KeysCalled(last.calls, "invalidateTag", "getItem") = {}
        /\ (\A g \in tags : TagEntryTables(before, g) \cap tables = {}) => shared = {}

\* onMutate named a tag and a table of its entry, and both invalidations
\* deleted the entry's value key
C21_Witness ==
  /\ last.op = "onMutate"
  /\ \E g \in Range(normalizeTags(last.params.tags)) :
       /\ TagEntryTables(before, g) \cap Range(normalizeTables(last.params.tables)) # {}
       /\ valueKey(TRUE, TRUE, encode(g), getItem(before, tagMapKey(encode(g))))
            \in TouchedByBoth(last.calls)

----------------------------------------------------------------------------
(* C22 Interleaving independence of onMutate: with no other operation      *)
(* running and no call failing, the storage after onMutate is the same for *)
(* every interleaving of the backend calls of its tag invalidations and    *)
(* its table invalidation, and it is the storage reached by running the    *)
(* tag invalidation to completion and then the table invalidation.         *)
C22_InterleavingIndependence ==
  (last.op = "onMutate" /\ inflight = <<>>)
  => \A readFirst \in BOOLEAN : storage = onMutate(before, last.params, readFirst)

----------------------------------------------------------------------------
(* C23 Store racing with invalidation can orphan an entry: put writes the  *)
(* value key and the index records as separate writes and onMutate         *)
(* enumerates and then deletes, so put(fp, v, T) interleaved with          *)
(* onMutate({tables: [t]}), t in T, can end with the value key stored and  *)
(* its index record under t missing; a later onMutate on t does not remove *)
(* such an entry, which stops being served only when a get finds it        *)
(* expired or a new put overwrites it.                                     *)

\* the entry of shape has its value key in st and no index record under t
OrphanedUnder(st, shape, t) ==
  /\ EntryValueKey(RaceFingerprint, shape.tables, shape.isTag) \in DOMAIN st
  /\ indexKey(t, makeTablesKey(shape.tables), shape.isTag, encode(RaceFingerprint))
       \notin DOMAIN st

\* the entry is orphaned, no put is in flight, and every onMutate in flight
\* started after the entry was orphaned and has seen no operation settle
QuietOrphan(shape) ==
  LET k == EntryValueKey(RaceFingerprint, shape.tables, shape.isTag)
  IN /\ OrphanedUnder(storage, shape, RaceTable)
     /\ \A n \in DOMAIN inflight :
          /\ inflight[n].op = "onMutate"
          /\ inflight[n].seen = <<>>
          /\ OrphanedUnder(inflight[n].st0, shape, RaceTable)
          /\ inflight[n].st0[k] = storage[k]

OrphanStep(shape) ==
  LET k == EntryValueKey(RaceFingerprint, shape.tables, shape.isTag)
      entry == storage[k].value
  IN QuietOrphan(shape)
     => /\ Val(entry.expiresAt) > now
           => get(storage, now, RaceFingerprint, shape.tables, shape.isTag, Undefined).result
                = Some(entry.value)
        /\ \/ k \in DOMAIN storage' /\ storage'[k] = storage[k]
           \/ last'.op = "get" /\ ops' = ops + 1 /\ isExpired(entry, now)
           \/ /\ honorsTtl /\ now' > now
              /\ IsDefined(storage[k].deadline) /\ Val(storage[k].deadline) <= now'

----------------------------------------------------------------------------
(* C24 Concurrent stores replace wholesale: when two puts to the same      *)
(* storage key overlap, a keepTtl put reading the existing entry before it *)
(* writes included, then after both have completed the value key holds the *)
(* complete entry (value, expiresAt, tables) written by exactly one of     *)
(* them, never a mixture, and a get before that entry's expiresAt returns  *)
(* that put's value.                                                       *)

\* the entry a put writes under its value key
EntryOf(p) == putWrites(p.key, p.response, p.tables, p.isTag, p.expiresAt)[1].value

\* the puts that overlapped the last put on its storage key, and that put
OverlappingPuts ==
  {last} \cup {last.overlapped[i] : i \in {j \in 1..Len(last.overlapped) :
                                             /\ last.overlapped[j].op = "put"
                                             /\ last.overlapped[j].tables = last.tables
                                             /\ last.overlapped[j].isTag = last.isTag}}

C24_ConcurrentStoresReplaceWholesale ==
  (last.op = "put" /\ inflight = <<>> /\ Cardinality(OverlappingPuts) > 1)
  => LET k == EntryValueKey(last.key, last.tables, last.isTag)
     IN \E p \in OverlappingPuts :
          /\ \/ k \in DOMAIN storage /\ storage[k].value = EntryOf(p)
             \/ k \notin DOMAIN storage /\ Val(p.expiresAt) <= now
          /\ Val(p.expiresAt) > now
             => get(storage, now, last.key, last.tables, last.isTag, Undefined).result
                  = Some(p.response)

----------------------------------------------------------------------------
(* C25 Tag invalidation is retry-safe: if onMutate({tags: [g]}) fails      *)
(* because one of its deletes fails, at whatever point, and it is run      *)
(* again with no failure and no put in between, the storage then holds no  *)
(* value key, index record or tag-map record of the entry the tag map      *)
(* pointed to; in the table-dependent path the tag-map record is deleted   *)
(* only after the value key and all the index records.                     *)

\* the records of the entry the tag map of st points to for tag g
PointedKeys(st, g) ==
  LET m == getItem(st, tagMapKey(encode(g)))
  IN IF FalsyString(m) THEN {}
     ELSE IF Val(m) = NAI
       THEN {valueKey(FALSE, TRUE, encode(g), Undefined), tagMapKey(encode(g))}
     ELSE TagEntryKeys(st, g) \cup {tagMapKey(encode(g))}

FailedTagDelete ==
  /\ last.op = "onMutate"
  /\ last.fault # NoFault
  /\ last.outcome = "rejected"
  /\ FailedCall.fn = "removeItem"
  /\ FailedCall.by.fn = "invalidateTag"

C25_TagInvalidationRetrySafe ==
  FailedTagDelete
  => \A g \in Range(normalizeTags(last.params.tags)) :
       /\ DOMAIN onMutate(storage, last.params, TRUE) \cap PointedKeys(before, g) = {}
       /\ tagMapKey(encode(g)) \in DOMAIN before \ DOMAIN storage
          => TagEntryKeys(before, g) \cap DOMAIN storage = {}

\* the delete of the value key of a tag entry over two tables failed, which
\* left every record of the entry stored, and the second run removes them
C25_Witness ==
  /\ FailedTagDelete
  /\ FailedCall.key = EntryValueKey(<<"k">>, <<users, posts>>, TRUE)
  /\ PointedKeys(before, <<"k">>) \subseteq DOMAIN storage
  /\ Cardinality(PointedKeys(before, <<"k">>)) > 3
  /\ DOMAIN onMutate(storage, last.params, TRUE) \cap PointedKeys(before, <<"k">>) = {}

----------------------------------------------------------------------------
(* C26 Lookup is read-only unless it finds an expired entry: a get that    *)
(* hits, and a get that misses because no entry is stored, leave every     *)
(* storage key unchanged; a get deletes keys only when it reads an entry   *)
(* whose expiresAt is <= now, and then only the value key of that entry,   *)
(* its index records and, on the tag path, its tag-map record.             *)

\* the value key the last get read, if it read one
ReadKey ==
  IF last.isTag THEN TagSlot(before, last.key)
  ELSE Some(valueKey(EffectiveAuto(last.tables, last.hint), FALSE, encode(last.key),
                     IF EffectiveAuto(last.tables, last.hint)
                       THEN Some(makeTablesKey(last.tables)) ELSE Undefined))

EntryRead == IF IsDefined(ReadKey) THEN getItem(before, Val(ReadKey)) ELSE Undefined

\* the value key read, the index records that name it, and the tag-map
\* record of a tag lookup
KeysOfEntryRead ==
  {Val(ReadKey)}
    \cup {k \in DOMAIN before : /\ IsDefined(parseIndexKey(k))
                                /\ parsedValueKeys({k}) = {Val(ReadKey)}}
    \cup (IF last.isTag THEN {tagMapKey(encode(last.key))} ELSE {})

C26_LookupReadOnlyUnlessExpired ==
  JustAfter("get")
  => /\ \A k \in DOMAIN storage : k \in DOMAIN before /\ storage[k] = before[k]
     /\ IF IsDefined(EntryRead) /\ Val(Val(EntryRead).expiresAt) <= last.at
          THEN /\ last.result = Undefined
               /\ DOMAIN before \ DOMAIN storage \subseteq KeysOfEntryRead
          ELSE storage = before

\* a tag lookup read an expired entry over two tables and deleted its four
\* records, and no other
C26_Witness ==
  /\ JustAfter("get")
  /\ last.isTag
  /\ IsDefined(EntryRead)
  /\ Val(Val(EntryRead).expiresAt) <= last.at
  /\ DOMAIN before \ DOMAIN storage = KeysOfEntryRead
  /\ Cardinality(KeysOfEntryRead) = 4
  /\ DOMAIN storage # {}

----------------------------------------------------------------------------
(* C27 No immortal and no expired-served entry: every entry that put       *)
(* persists carries a defined expiresAt strictly greater than the time of  *)
(* that put, for every combination of per-call config, default config and  *)
(* keepTtl; and get never returns the value of an entry whose expiresAt is *)
(* <= the time of the get.                                                 *)

\* a put has just returned and its value key is stored
StoredByLast == JustAfter("put") /\ LastValueKey \in DOMAIN storage

C27_NoImmortalNoExpiredServed ==
  /\ \A k \in {x \in DOMAIN storage : IsValueKey(x)} : IsDefined(storage[k].value.expiresAt)
  /\ StoredByLast
     => /\ storage[LastValueKey].value.value = last.response
        /\ IsDefined(storage[LastValueKey].value.expiresAt)
        /\ Val(storage[LastValueKey].value.expiresAt) > last.at
  /\ (last.op = "get" /\ IsDefined(last.result))
     => /\ IsDefined(EntryRead)
        /\ Val(EntryRead).value = Val(last.result)
        /\ IsDefined(Val(EntryRead).expiresAt)
        /\ Val(Val(EntryRead).expiresAt) > last.at

\* under a default config with a TTL field, a put with exat 3 and keepTtl
\* stored its entry with expiry 3000, and the get at 2000 returned its value
C27_Witness ==
  /\ last.op = "get"
  /\ IsDefined(last.result)
  /\ IsDefined(defaultConfig)
  /\ Val(EntryRead).expiresAt = Some(3000)
  /\ last.at = 2000

====
